---------------------------- MODULE Spec2Model ----------------------------
(***************************************************************************)
(* Model of the network coordination layer of P2P_VideoStream:             *)
(*   - TrackerServer (src/Server/tracker.py): peer registry, video index,  *)
(*     request handlers run one per connection, and the timeout sweep;     *)
(*   - Peer (src/Server/peer.py): video library, add_video, the workers    *)
(*     serving LIST_VIDEOS, GET_VIDEO_INFO and DOWNLOAD_VIDEO, and the     *)
(*     client side download_video.                                         *)
(* Two specifications share the module: SpecTracker moves only the tracker *)
(* variables, SpecPeer only the peer variables.                            *)
(***************************************************************************)
EXTENDS Integers, Sequences, FiniteSets, TLC

(***************************************************************************)
(* Bounds of the model and program constants.                              *)
(***************************************************************************)
\* TIMEOUT = 300 in _cleanup_inactive_peers
TIMEOUT == 300
\* the clock advances in steps of Tick up to MaxTime
Tick == 300
MaxTime == 600

\* bytes one read(8192) / recv(8192) moves, scaled to the file lengths of the model
ChunkSize == 1
\* bytes _generate_video_id hashes (1024 * 1024 in the code), scaled likewise
PrefixLen == 1
\* bytes one recv(4096) of a JSON message returns at most, and the encoded length of
\* a response header, on one scale
RecvBuffer == 2
HdrLen == 2
\* number of ids the digest can yield (16 ** 16 ids in the code), scaled likewise
HexBase == 2
\* files given to _generate_video_id: bytes 0..MaxByte, lengths up to MaxIdLen
MaxByte == 2
MaxIdLen == 2

\* absent JSON field: request.get(...) returns None
None == "None"

PeerIds == {"alice", "bob"}
\* the addresses peers register with: <<host, port>>
Addrs == {<<"10.0.0.1", 5001>>, <<"10.0.0.2", 5002>>}
Hosts == {a[1] : a \in Addrs}
Ports == {a[2] : a \in Addrs}
TrackerVideoIds == {"v1", "v2"}
\* the peers of the transfer model
PeerNames == {"A", "B"}
\* display names add_video is called with
VideoName == "clip"

\* per-connection worker threads of the tracker that can be between REGISTER's lock
\* section and its response; every other handler touches the shared state in one
\* lock section, so its worker needs no position
Workers == {"w1", "w2"}

VARIABLES
    \* ---- TrackerServer ----
    peer_registry,  \* peer_id -> [host, port, last_seen]   (self.peer_registry)
    video_index,    \* video_id -> sequence of peer_id      (self.video_index)
    now,            \* time.time()
    wpc,            \* worker -> "idle" | "count" (REGISTER, between the lock section and len())
    wpre,           \* worker -> what the registry was when its REGISTER arrived (observation)
    resp,           \* what the last step put out: the response a handler sent, or the
                    \* peers the sweep logged as removed (tracker.py 325); NoResp otherwise
    announced,      \* <<peer_id, video_id>> announced and not removed from the registry since
    ever_registered,\* peer_ids a REGISTER has stored at some point (observation)
    \* ---- Peer ----
    library,        \* peer -> (video_id -> [size, name, origin])   (self.video_library)
    files,          \* peer -> (video_id -> bytes of peer_videos_<peer>/<video_id>.mp4)
    dl,             \* the download exchange in progress
    out,            \* what the last step put out apart from that exchange: the answer of a
                    \* worker to a one-message request, or what add_video returned
    \* ---- functions and client helpers called on their own ----
    call,           \* the last call: its name, its inputs and what it returned
    \* ---- a peer as a client of other peers ----
    known_peers,    \* Peer.known_peers: a list of (host, port)
    scan,           \* a get_all_network_videos call: its position in the loop, the
                    \* dict it builds, for each peer asked how the request went, and
                    \* the length of known_peers when it returned
    \* ---- threads and the lock of one server (threading.Lock) ----
    lock,           \* the thread that holds the lock, or None
    thop,           \* per thread: the operation it runs, or "idle"
    thpc,           \* per thread: the step of that operation it is about to take
    \* ---- a server being stopped ----
    running,        \* self.running
    sock,           \* the server socket: "listening" or "closed"
    backlog,        \* connections made by clients and not yet accepted
    lpc,            \* where _listen_for_connections is
    stpc,           \* where stop() is: "none" before it is called
    hst,            \* per handler thread: "unborn", "running" or "finished"
    waits,          \* accept calls that returned since stop() was called
    late,           \* connections accepted since stop() was called
    \* ---- the tracker watched over a peer's removal ----
    snap            \* the <<peer_id, video_id>> pairs that were in `announced' at some
                    \* earlier moment (observation)

trackerVars == <<peer_registry, video_index, now, wpc, wpre, resp, announced, ever_registered>>
peerVars == <<library, files, dl, out>>
\* the variables neither the tracker's handlers nor the peers' transfers touch
clientVars == <<known_peers, scan>>
lockVars == <<lock, thop, thpc>>
stopVars == <<running, sock, backlog, lpc, stpc, hst, waits, late>>
historyVars == <<snap>>
otherVars == <<call, clientVars, lockVars, stopVars, historyVars>>
vars == <<peer_registry, video_index, now, wpc, wpre, resp, announced, ever_registered,
          library, files, dl, out, call, known_peers, scan, lock, thop, thpc,
          running, sock, backlog, lpc, stpc, hst, waits, late, snap>>

(***************************************************************************)
(* Helpers on dicts and lists.                                             *)
(***************************************************************************)
\* d[k] = v  on a Python dict
DictPut(d, k, v) == [x \in DOMAIN d \cup {k} |-> IF x = k THEN v ELSE d[x]]

\* del d[k]
DictDel(d, k) == [x \in DOMAIN d \ {k} |-> d[x]]

\* x in list
InList(s, x) == \E i \in 1..Len(s) : s[i] = x

\* list.remove(x): removes the first occurrence only
ListRemove(s, x) ==
    IF ~InList(s, x) THEN s
    ELSE LET i == CHOOSE j \in 1..Len(s) : s[j] = x /\ \A k \in 1..(j-1) : s[k] # x
         IN  SubSeq(s, 1, i-1) \o SubSeq(s, i+1, Len(s))

\* not all([...]): a field that is absent (None) fails the check
Missing(x) == x \in {None, ""}

\* request.get('port') of a request without a port (tracker.py 163): Python's None,
\* written as a number no port has
NoPort == -1

\* not all([...]) on the port: an absent port and the falsy port 0 fail alike
MissingPort(port) == port \in {NoPort, 0}

NoResp == [type |-> "none"]

\* a worker that is not between REGISTER's lock section and its response
NoPre == [known |-> FALSE, size |-> 0]

(***************************************************************************)
(* TrackerServer                                                           *)
(***************************************************************************)
\* PruneIndex that removes nothing: the peer that left stays in every entry
PruneIndexNothing(idx, peer_id) == idx

\* PruneIndex without lines 199-200: an entry left empty stays in the index
PruneIndexKeepEmpty(idx, peer_id) == [v \in DOMAIN idx |-> ListRemove(idx[v], peer_id)]

\* tracker.py 196-200 / 329-333: drop peer_id from every entry, delete empty entries
PruneIndex(idx, peer_id) ==
    LET removed == [v \in DOMAIN idx |-> ListRemove(idx[v], peer_id)]
    IN  [v \in {u \in DOMAIN idx : removed[u] # <<>>} |-> removed[v]]

\* IndexAdd that assigns the entry instead of appending to it
IndexAddReplace(idx, video_id, peer_id) == DictPut(idx, video_id, <<peer_id>>)

\* IndexAdd without the test of line 249
IndexAddAlways(idx, video_id, peer_id) ==
    LET cur == IF video_id \in DOMAIN idx THEN idx[video_id] ELSE <<>>
    IN  DictPut(idx, video_id, Append(cur, peer_id))

\* tracker.py 245-250
IndexAdd(idx, video_id, peer_id) ==
    LET cur == IF video_id \in DOMAIN idx THEN idx[video_id] ELSE <<>>
    IN  DictPut(idx, video_id, IF InList(cur, peer_id) THEN cur ELSE Append(cur, peer_id))

\* the observation `announced`: pairs of a peer that left the registry are dropped
AnnouncedAfter(reg2) ==
    {pv \in announced : ~(pv[1] \in DOMAIN peer_registry /\ pv[1] \notin DOMAIN reg2)}

\* tracker.py 161-166: REGISTER with a missing field
RegisterMissing(peer_id, host, port) ==
    /\ ~(~Missing(peer_id) /\ ~Missing(host) /\ ~MissingPort(port))
    /\ resp' = [type |-> "REGISTER", status |-> "error",
                message |-> "Missing peer information"]
    /\ UNCHANGED <<peer_registry, video_index, now, wpc, wpre, announced, ever_registered, peerVars, otherVars>>

\* tracker.py 168-169: the lock section of REGISTER
RegisterStore(w, peer_id, host, port) ==
    /\ wpc[w] = "idle"
    /\ ~Missing(peer_id) /\ ~Missing(host) /\ ~MissingPort(port)
    /\ peer_registry' = DictPut(peer_registry, peer_id,
                                [host |-> host, port |-> port, last_seen |-> now])
    /\ wpc' = [wpc EXCEPT ![w] = "count"]
    /\ wpre' = [wpre EXCEPT ![w] =
                   IF peer_id \in DOMAIN peer_registry
                   THEN [known |-> TRUE, size |-> Cardinality(DOMAIN peer_registry)]
                   ELSE [known |-> FALSE, size |-> 0]]
    /\ ever_registered' = ever_registered \cup {peer_id}
    /\ resp' = NoResp
    /\ UNCHANGED <<video_index, now, announced, peerVars, otherVars>>

\* tracker.py 176: len(self.peer_registry), read after the lock was released
RegisterCount(reg) == Cardinality(DOMAIN reg)

\* tracker.py 173-177: the response of REGISTER
RegisterRespond(w) ==
    /\ wpc[w] = "count"
    /\ resp' = [type |-> "REGISTER", status |-> "success",
                peer_count |-> RegisterCount(peer_registry)]
    /\ wpc' = [wpc EXCEPT ![w] = "idle"]
    /\ wpre' = [wpre EXCEPT ![w] = NoPre]
    /\ UNCHANGED <<peer_registry, video_index, now, announced, ever_registered, peerVars, otherVars>>

\* UnregisterPeer without the test of line 192: the index is pruned of a peer_id
\* the registry does not hold
UnregisterPeerPrunesAlways(peer_id) ==
    /\ peer_registry' = (IF peer_id \in DOMAIN peer_registry
                         THEN DictDel(peer_registry, peer_id) ELSE peer_registry)
    /\ video_index' = PruneIndex(video_index, peer_id)
    /\ announced' = AnnouncedAfter(peer_registry')
    /\ resp' = [type |-> "UNREGISTER", status |-> "success",
                removed |-> peer_id \in DOMAIN peer_registry]
    /\ UNCHANGED <<now, wpc, wpre, ever_registered, peerVars, otherVars>>

\* tracker.py 179-204
UnregisterPeer(peer_id) ==
    /\ IF peer_id \in DOMAIN peer_registry
       THEN /\ peer_registry' = DictDel(peer_registry, peer_id)
            /\ video_index' = PruneIndex(video_index, peer_id)
       ELSE UNCHANGED <<peer_registry, video_index>>
    /\ announced' = AnnouncedAfter(peer_registry')
    /\ resp' = [type |-> "UNREGISTER", status |-> "success",
                removed |-> peer_id \in DOMAIN peer_registry]
    /\ UNCHANGED <<now, wpc, wpre, ever_registered, peerVars, otherVars>>

\* AllPeers that leaves out the peers not seen since the tracker started
AllPeersSeenLater(reg) ==
    {[peer_id |-> p, host |-> reg[p].host, port |-> reg[p].port] :
        p \in {q \in DOMAIN reg : reg[q].last_seen > 0}}

\* tracker.py 213-221: one record per registry entry
AllPeers(reg) == {[peer_id |-> p, host |-> reg[p].host, port |-> reg[p].port] : p \in DOMAIN reg}

\* tracker.py 206-227
GetAllPeers ==
    /\ resp' = [type |-> "GET_PEERS", status |-> "success",
                peers |-> AllPeers(peer_registry),
                count |-> Cardinality(AllPeers(peer_registry))]
    /\ UNCHANGED <<peer_registry, video_index, now, wpc, wpre, announced, ever_registered, peerVars, otherVars>>

\* tracker.py 239-243: ANNOUNCE_VIDEO with a missing field
AnnounceMissing(peer_id, video_id) ==
    /\ ~(~Missing(peer_id) /\ ~Missing(video_id))
    /\ resp' = [type |-> "ANNOUNCE_VIDEO", status |-> "error",
                message |-> "Missing information"]
    /\ UNCHANGED <<peer_registry, video_index, now, wpc, wpre, announced, ever_registered, peerVars, otherVars>>

\* AnnounceVideo that counts the announce as a sign of life of a registered peer
AnnounceVideoRefreshes(peer_id, video_id) ==
    /\ ~Missing(peer_id) /\ ~Missing(video_id)
    /\ video_index' = IndexAdd(video_index, video_id, peer_id)
    /\ peer_registry' =
          IF peer_id \in DOMAIN peer_registry
          THEN [peer_registry EXCEPT ![peer_id].last_seen = now]
          ELSE peer_registry
    /\ announced' = announced \cup {<<peer_id, video_id>>}
    /\ resp' = [type |-> "ANNOUNCE_VIDEO", status |-> "success",
                again |-> video_id \in DOMAIN video_index
                          /\ InList(video_index[video_id], peer_id)]
    /\ UNCHANGED <<now, wpc, wpre, ever_registered, peerVars, otherVars>>

\* tracker.py 245-254
AnnounceVideo(peer_id, video_id) ==
    /\ ~Missing(peer_id) /\ ~Missing(video_id)
    /\ video_index' = IndexAdd(video_index, video_id, peer_id)
    /\ announced' = announced \cup {<<peer_id, video_id>>}
    /\ resp' = [type |-> "ANNOUNCE_VIDEO", status |-> "success",
                again |-> video_id \in DOMAIN video_index
                          /\ InList(video_index[video_id], peer_id)]
    /\ UNCHANGED <<peer_registry, now, wpc, wpre, ever_registered, peerVars, otherVars>>

\* tracker.py 275-280: the entry FIND_VIDEO returns for a peer
PeerEntry(reg, peer_id) == [peer_id |-> peer_id, host |-> reg[peer_id].host, port |-> reg[peer_id].port]

\* PeersWithVideo without the test of line 274: a peer that is indexed but not
\* registered is returned, with no contact data
PeersWithVideoStale(idx, reg, video_id) ==
    LET peer_ids == IF video_id \in DOMAIN idx THEN idx[video_id] ELSE <<>>
    IN  [i \in 1..Len(peer_ids) |->
            IF peer_ids[i] \in DOMAIN reg THEN PeerEntry(reg, peer_ids[i])
            ELSE [peer_id |-> peer_ids[i], host |-> None, port |-> 0]]

\* tracker.py 269-280: peers of the index entry that are in the registry, in index order
PeersWithVideo(idx, reg, video_id) ==
    LET peer_ids == IF video_id \in DOMAIN idx THEN idx[video_id] ELSE <<>>
        live == SelectSeq(peer_ids, LAMBDA p : p \in DOMAIN reg)
    IN  [i \in 1..Len(live) |-> PeerEntry(reg, live[i])]

\* tracker.py 256-286
FindVideo(video_id) ==
    /\ resp' = [type |-> "FIND_VIDEO", status |-> "success",
                peers |-> PeersWithVideo(video_index, peer_registry, video_id),
                count |-> Len(PeersWithVideo(video_index, peer_registry, video_id))]
    /\ UNCHANGED <<peer_registry, video_index, now, wpc, wpre, announced, ever_registered, peerVars, otherVars>>

\* Refreshed that writes the default host instead of the stored one
RefreshedDefaultHost(entry, t) == [host |-> "localhost", port |-> entry.port, last_seen |-> t]

\* tracker.py 302-303: the refreshed entry
Refreshed(entry, t) == [host |-> entry.host, port |-> entry.port, last_seen |-> t]

\* HeartbeatRegistry that stores last_seen for a peer_id it does not know
HeartbeatUpsert(reg, peer_id, t) ==
    IF peer_id \in DOMAIN reg THEN DictPut(reg, peer_id, Refreshed(reg[peer_id], t))
    ELSE DictPut(reg, peer_id, [host |-> None, port |-> 0, last_seen |-> t])

\* tracker.py 301-303: what HEARTBEAT does to the registry
HeartbeatRegistry(reg, peer_id, t) ==
    IF peer_id \in DOMAIN reg THEN DictPut(reg, peer_id, Refreshed(reg[peer_id], t)) ELSE reg

\* tracker.py 304-306: the status HEARTBEAT answers
HeartbeatStatus(reg, peer_id) == IF peer_id \in DOMAIN reg THEN "success" ELSE "error"

\* tracker.py 288-306
UpdateHeartbeat(peer_id) ==
    /\ peer_registry' = HeartbeatRegistry(peer_registry, peer_id, now)
    /\ resp' = [type |-> "HEARTBEAT", status |-> HeartbeatStatus(peer_registry, peer_id),
                peer_id |-> peer_id]
    /\ UNCHANGED <<video_index, now, wpc, wpre, announced, ever_registered, peerVars, otherVars>>

\* tracker.py 106-107, 141-145: the bytes received are not a JSON object: json.loads
\* or request.get raises and the except clause answers the error
MalformedRequest ==
    /\ resp' = [type |-> "MALFORMED", status |-> "error"]
    /\ UNCHANGED <<peer_registry, video_index, now, wpc, wpre, announced, ever_registered, peerVars, otherVars>>

\* tracker.py 109, 135-136: a request of no known kind, or with no kind at all
UnknownRequest ==
    /\ resp' = [type |-> "UNKNOWN", status |-> "error"]
    /\ UNCHANGED <<peer_registry, video_index, now, wpc, wpre, announced, ever_registered, peerVars, otherVars>>

\* InactivePeers that also takes the peers whose age equals the timeout
InactivePeersAtTimeout(reg, t) == {p \in DOMAIN reg : t - reg[p].last_seen >= TIMEOUT}

\* InactivePeers with the subtraction the wrong way round
InactivePeersReversed(reg, t) == {p \in DOMAIN reg : reg[p].last_seen - t > TIMEOUT}

\* tracker.py 318-322
InactivePeers(reg, t) == {p \in DOMAIN reg : t - reg[p].last_seen > TIMEOUT}

\* PruneAll without lines 332-333: entries the eviction empties stay in the index
PruneAllKeepEmpty(idx, ps) == [v \in DOMAIN idx |-> SelectSeq(idx[v], LAMBDA p : p \notin ps)]

\* tracker.py 324-333: the loop over inactive_peers
RECURSIVE PruneAll(_, _)
PruneAll(idx, ps) ==
    IF ps = {} THEN idx
    ELSE LET p == CHOOSE x \in ps : TRUE
         IN  PruneAll(PruneIndex(idx, p), ps \ {p})

\* tracker.py 316-333: one pass of the cleanup thread: it reads the clock and runs
\* its lock section
Sweep ==
    /\ LET current_time == now
           inactive_peers == InactivePeers(peer_registry, current_time)
       IN  /\ peer_registry' = [p \in DOMAIN peer_registry \ inactive_peers |-> peer_registry[p]]
           /\ video_index' = PruneAll(video_index, inactive_peers)
    /\ announced' = AnnouncedAfter(peer_registry')
    /\ resp' = [type |-> "SWEEP", evicted |-> InactivePeers(peer_registry, now)]
    /\ UNCHANGED <<now, wpc, wpre, ever_registered, peerVars, otherVars>>

\* time passes
TickClock ==
    /\ now + Tick <= MaxTime
    /\ now' = now + Tick
    /\ resp' = NoResp
    /\ UNCHANGED <<peer_registry, video_index, wpc, wpre, announced, ever_registered, peerVars, otherVars>>

TrackerInit ==
    /\ peer_registry = <<>>
    /\ video_index = <<>>
    /\ now = 0
    /\ wpc = [w \in Workers |-> "idle"]
    /\ wpre = [w \in Workers |-> NoPre]
    /\ resp = NoResp
    /\ announced = {}
    /\ ever_registered = {}

\* REGISTER requests that lack a field, or carry an empty string or the port 0
IncompleteRegisters ==
    {<<None, "10.0.0.1", 5001>>, <<"alice", None, 5001>>, <<"alice", "10.0.0.1", NoPort>>,
     <<None, None, NoPort>>,
     <<"", "10.0.0.1", 5001>>, <<"alice", "", 5001>>, <<"alice", "10.0.0.1", 0>>}

\* the addresses a peer registers from: alice moves between the two, bob stays
RegisterAddrs(p) == IF p = "alice" THEN Addrs ELSE {<<"10.0.0.2", 5002>>}

\* the REGISTER requests the tracker is sent
RegisterRequests ==
    UNION {{<<p, a[1], a[2]>> : a \in RegisterAddrs(p)} : p \in PeerIds} \cup IncompleteRegisters

TrackerNext ==
    \/ \E r \in RegisterRequests : RegisterMissing(r[1], r[2], r[3])
    \/ \E w \in Workers, r \in RegisterRequests : RegisterStore(w, r[1], r[2], r[3])
    \/ \E w \in Workers : RegisterRespond(w)
    \/ \E p \in PeerIds \cup {None} : UnregisterPeer(p)
    \/ GetAllPeers
    \/ \E p \in PeerIds \cup {None}, v \in TrackerVideoIds \cup {None} : AnnounceMissing(p, v)
    \/ \E p \in PeerIds, v \in TrackerVideoIds : AnnounceVideo(p, v)
    \/ \E v \in TrackerVideoIds \cup {None} : FindVideo(v)
    \/ \E p \in PeerIds \cup {None} : UpdateHeartbeat(p)
    \/ UnknownRequest
    \/ MalformedRequest
    \/ Sweep
    \/ TickClock

(***************************************************************************)
(* Peer: library, add_video, and one DOWNLOAD_VIDEO exchange at a time     *)
(* between a requester running download_video and a serving worker.        *)
(* Every file lives at the default path peer_videos_<peer>/<video_id>.mp4  *)
(* (download_video is called without save_path), so files are keyed by     *)
(* peer and video id.                                                      *)
(***************************************************************************)
Min(a, b) == IF a < b THEN a ELSE b
Max(a, b) == IF a > b THEN a ELSE b

\* the files add_video is called on, as byte sequences: a one-chunk file and a
\* longer one that begins with the same bytes
SourceFiles == {<<0>>, <<0, 1>>}

\* sum of the bytes of a byte string
RECURSIVE SumBytes(_)
SumBytes(bytes) == IF bytes = <<>> THEN 0 ELSE bytes[1] + SumBytes(Tail(bytes))

\* peer.py 191-195: hashlib.md5(...).hexdigest()[:16], a fixed function from byte
\* strings to the strings of 16 hex digits, of which there are fewer than byte
\* strings. Scaled: one digit below HexBase; the byte sum stands for the digest
Md5Hex16(bytes) == <<SumBytes(bytes) % HexBase>>

\* peer.py 192-194: f.read(1024 * 1024), the first PrefixLen bytes of the file
FirstMiB(content) == SubSeq(content, 1, Min(PrefixLen, Len(content)))

\* peer.py 189-195: the id is the digest of the first PrefixLen bytes
GenerateVideoId(content) == Md5Hex16(FirstMiB(content))

\* the ids requests are made for: those of the source files, and one no file has
VideoIds == {GenerateVideoId(f) : f \in SourceFiles} \cup {<<HexBase>>}

\* data written at byte offset pos of a file (a hole is read back as zero bytes)
WriteAt(data, pos, chunk) ==
    [i \in 1..Max(Len(data), pos + Len(chunk)) |->
        IF i > pos /\ i <= pos + Len(chunk) THEN chunk[i - pos]
        ELSE IF i <= Len(data) THEN data[i] ELSE 0]

\* ReadChunk that loses the last byte of the file
ReadChunkShort(data, off) ==
    IF off >= Len(data) - 1 THEN <<>> ELSE SubSeq(data, off + 1, Min(off + ChunkSize, Len(data) - 1))

\* peer.py 241: video_file.read(8192) at offset off
ReadChunk(data, off) ==
    IF off >= Len(data) THEN <<>> ELSE SubSeq(data, off + 1, Min(off + ChunkSize, Len(data)))

NoHdr == [status |-> "none", size |-> 0, name |-> None]

NoOut == [type |-> "none"]

\* peer.py 313 / network_utils.py 43: one recv(4096) returns what has arrived, up to
\* the buffer size
RecvOnce(arrived) == Min(arrived, RecvBuffer)

\* peer.py 314 / network_utils.py 44: json.loads accepts the complete text only
ParsesHeader(got) == got = HdrLen

\* ServeHeader that answers a success header for a video that is not in the library
ServeHeaderAlways(lib, video_id) ==
    IF video_id \in DOMAIN lib
    THEN [status |-> "success", size |-> lib[video_id].size, name |-> lib[video_id].name]
    ELSE [status |-> "success", size |-> 0, name |-> None]

\* peer.py 219-233: the header _send_video_file answers
ServeHeader(lib, video_id) ==
    IF video_id \in DOMAIN lib
    THEN [status |-> "success", size |-> lib[video_id].size, name |-> lib[video_id].name]
    ELSE [status |-> "not_found", size |-> 0, name |-> None]

\* no exchange in progress
IdleDl ==
    [cpc |-> "idle", spc |-> "idle", c |-> None, s |-> None, v |-> <<>>,
     hdr |-> NoHdr, ack |-> FALSE, wire |-> <<>>, off |-> 0, received |-> 0,
     file_size |-> 0, result |-> "none",
     \* observations of the exchange
     found |-> FALSE, clean |-> FALSE, interfered |-> FALSE, dropped |-> FALSE,
     streamed |-> 0, opened |-> FALSE, acked |-> FALSE, registered |-> FALSE,
     eof |-> FALSE, reset |-> FALSE, handled |-> 0, parsed |-> FALSE,
     torn |-> FALSE, ackbytes |-> FALSE]

\* another operation of peer p writes the file of video_id while the exchange uses it
Interferes(p, video_id) ==
    /\ dl.cpc # "idle"
    /\ dl.v = video_id
    /\ p \in {dl.c, dl.s}

\* peer.py 146-183: add_video on a readable source file
AddVideo(p, src) ==
    LET video_id == GenerateVideoId(src)
        file_size == Len(src)
    IN  /\ files' = [files EXCEPT ![p] = DictPut(@, video_id, [data |-> src, by |-> "add"])]
        /\ library' = [library EXCEPT ![p] =
                          DictPut(@, video_id, [size |-> file_size, name |-> VideoName,
                                                origin |-> "add"])]
        /\ dl' = IF Interferes(p, video_id) THEN [dl EXCEPT !.interfered = TRUE] ELSE dl
        /\ out' = [type |-> "add_video", status |-> "id"]
        /\ UNCHANGED <<trackerVars, otherVars>>

\* peer.py 158-169, 185-187: add_video fails. Either an exception comes before the
\* destination is opened (the source cannot be read) and nothing is written, or the
\* destination has been opened for writing, which empties it, and the copy raises.
\* The library update is never reached; None is returned.
AddVideoFails(p, src, opened) ==
    LET video_id == GenerateVideoId(src)
    IN  /\ IF opened
           THEN /\ files' = [files EXCEPT ![p] = DictPut(@, video_id, [data |-> <<>>, by |-> "add_failed"])]
                /\ dl' = IF Interferes(p, video_id) THEN [dl EXCEPT !.interfered = TRUE] ELSE dl
           ELSE UNCHANGED <<files, dl>>
        /\ out' = [type |-> "add_video", status |-> None]
        /\ UNCHANGED <<library, trackerVars, otherVars>>

\* peer.py 197-208: _get_video_list
VideoList(lib) == {[id |-> v, name |-> lib[v].name, size |-> lib[v].size] : v \in DOMAIN lib}

\* peer.py 113-124, 143-144: a worker serves LIST_VIDEOS and closes
ServeListVideos(p) ==
    /\ out' = [type |-> "LIST_VIDEOS", status |-> "success", closed |-> TRUE,
                videos |-> VideoList(library[p])]
    /\ UNCHANGED <<library, files, dl, trackerVars, otherVars>>

\* peer.py 134-137: the status of GET_VIDEO_INFO
VideoInfoStatus(lib, video_id) == IF video_id \in DOMAIN lib THEN "success" ELSE "not_found"

\* peer.py 113-116, 131-139, 143-144: a worker serves GET_VIDEO_INFO and closes
ServeVideoInfo(p, video_id) ==
    /\ out' = [type |-> "GET_VIDEO_INFO", status |-> VideoInfoStatus(library[p], video_id),
                closed |-> TRUE]
    /\ UNCHANGED <<library, files, dl, trackerVars, otherVars>>

\* peer.py 116-144: a request of a kind none of the three branches matches: the
\* worker sends nothing and closes
ServeUnknown ==
    /\ out' = [type |-> "UNKNOWN", status |-> None, closed |-> TRUE]
    /\ UNCHANGED <<library, files, dl, trackerVars, otherVars>>

\* peer.py 113-114, 141-144: the bytes received are not JSON: json.loads raises, the
\* except clause logs, the worker sends nothing and closes
ServeMalformed ==
    /\ out' = [type |-> "MALFORMED", status |-> None, closed |-> TRUE]
    /\ UNCHANGED <<library, files, dl, trackerVars, otherVars>>

\* peer.py 300-310: download_video connects and sends the request
DlStart(c, s, video_id) ==
    /\ dl.cpc = "idle"
    /\ c # s
    /\ dl' = [IdleDl EXCEPT !.cpc = "wait_header", !.spc = "accept",
                            !.c = c, !.s = s, !.v = video_id]
    /\ out' = NoOut
    /\ UNCHANGED <<library, files, trackerVars, otherVars>>

\* AfterHeader that lets the worker read another request after a not_found answer
AfterHeaderKeepOpen(hdr) == IF hdr.status = "success" THEN "wait_ack" ELSE "accept"

\* peer.py 221-236, 143-144: after not_found the worker returns and closes; after a
\* success header it waits for the acknowledgment
AfterHeader(hdr) == IF hdr.status = "success" THEN "wait_ack" ELSE "closed"

\* peer.py 126-129, 219-233: the serving worker looks the video up and sends the header;
\* for an absent video it is done (finally: close)
SrvHeader ==
    /\ dl.spc = "accept"
    /\ LET lib == library[dl.s]
           hdr == ServeHeader(lib, dl.v)
       IN  dl' = [dl EXCEPT !.hdr = hdr,
                            !.spc = AfterHeader(hdr),
                            !.handled = @ + 1,
                            !.found = dl.v \in DOMAIN lib,
                            !.clean = /\ dl.v \in DOMAIN lib
                                      /\ lib[dl.v].origin = "add"
                                      /\ dl.v \in DOMAIN files[dl.s]
                                      /\ files[dl.s][dl.v].by = "add"]
    /\ out' = NoOut
    /\ UNCHANGED <<library, files, trackerVars, otherVars>>

\* peer.py 316: the requester's test of the header
HeaderOk(hdr) == hdr.status = "success"

\* peer.py 313-319: the header says the video is not there
DlNotFound ==
    /\ dl.cpc = "wait_header"
    /\ dl.hdr.status # "none"
    /\ ParsesHeader(RecvOnce(HdrLen))
    /\ ~HeaderOk(dl.hdr)
    /\ dl' = [dl EXCEPT !.cpc = "done", !.result = "False", !.parsed = TRUE]
    /\ out' = NoOut
    /\ UNCHANGED <<library, files, trackerVars, otherVars>>

\* peer.py 313-335: the header says success: send ACK, open the destination for writing
DlAck ==
    /\ dl.cpc = "wait_header"
    /\ dl.hdr.status # "none"
    /\ ParsesHeader(RecvOnce(HdrLen))
    /\ HeaderOk(dl.hdr)
    /\ dl' = [dl EXCEPT !.cpc = "recv", !.ack = TRUE, !.acked = TRUE, !.opened = TRUE,
                        !.parsed = TRUE,
                        !.file_size = dl.hdr.size, !.received = 0]
    /\ files' = [files EXCEPT ![dl.c] = DictPut(@, dl.v, [data |-> <<>>, by |-> "download"])]
    /\ out' = NoOut
    /\ UNCHANGED <<library, trackerVars, otherVars>>

\* peer.py 313-314, 359-361: the connection ended before any header arrived:
\* json.loads raises and download_video returns False
DlNoHeader ==
    /\ dl.cpc = "wait_header"
    /\ dl.hdr.status = "none"
    /\ dl.spc = "closed"
    /\ ~dl.reset
    /\ dl' = [dl EXCEPT !.cpc = "done", !.result = "False"]
    /\ out' = NoOut
    /\ UNCHANGED <<library, files, trackerVars, otherVars>>

\* peer.py 313-314, 359-361: the header has been sent but recv(4096) returns only a
\* part of it (the stream delivers it in pieces, or it is longer than the buffer):
\* json.loads raises, download_video returns False and its socket is closed with it
DlHeaderTorn(arrived) ==
    /\ dl.cpc = "wait_header"
    /\ dl.hdr.status # "none"
    /\ ~dl.reset
    /\ ~ParsesHeader(RecvOnce(arrived))
    /\ dl' = [dl EXCEPT !.cpc = "done", !.result = "False", !.torn = TRUE]
    /\ out' = NoOut
    /\ UNCHANGED <<library, files, trackerVars, otherVars>>

\* peer.py 236-239: the serving worker gets the acknowledgment and opens its file
SrvAck ==
    /\ dl.spc = "wait_ack"
    /\ dl.ack
    /\ dl' = [dl EXCEPT !.spc = "stream", !.ack = FALSE, !.off = 0, !.ackbytes = TRUE]
    /\ out' = NoOut
    /\ UNCHANGED <<library, files, trackerVars, otherVars>>

\* peer.py 236-239: the requester has closed without sending an acknowledgment:
\* recv(1024) returns no bytes, the result is not looked at, and the worker opens
\* its file
SrvAckClosed ==
    /\ dl.spc = "wait_ack"
    /\ ~dl.ack
    /\ dl.cpc = "done"
    /\ dl' = [dl EXCEPT !.spc = "stream", !.off = 0]
    /\ out' = NoOut
    /\ UNCHANGED <<library, files, trackerVars, otherVars>>

\* peer.py 240-244: one chunk is read from the file and sent (a send just after the
\* requester has closed can still be accepted by the transport)
SrvSend ==
    /\ dl.spc = "stream"
    /\ LET chunk == ReadChunk(files[dl.s][dl.v].data, dl.off)
       IN  /\ chunk # <<>>
           /\ dl' = [dl EXCEPT !.wire = @ \o chunk, !.off = @ + Len(chunk),
                               !.streamed = @ + Len(chunk)]
    /\ out' = NoOut
    /\ UNCHANGED <<library, files, trackerVars, otherVars>>

\* peer.py 242-246, 144: read returns no bytes: the stream is complete, the worker closes
SrvEof ==
    /\ dl.spc = "stream"
    /\ ReadChunk(files[dl.s][dl.v].data, dl.off) = <<>>
    /\ dl' = [dl EXCEPT !.spc = "closed", !.eof = TRUE]
    /\ out' = NoOut
    /\ UNCHANGED <<library, files, trackerVars, otherVars>>

\* peer.py 244, 248-249: send on a connection the requester has closed raises
SrvSendFails ==
    /\ dl.spc = "stream"
    /\ dl.cpc = "done"
    /\ ReadChunk(files[dl.s][dl.v].data, dl.off) # <<>>
    /\ dl' = [dl EXCEPT !.spc = "closed"]
    /\ out' = NoOut
    /\ UNCHANGED <<library, files, trackerVars, otherVars>>

\* the connection drops: the serving side goes away before it is done, and the
\* requester reads what was sent and then end of stream
ConnDrop ==
    /\ dl.spc \in {"accept", "wait_ack", "stream"}
    /\ dl.cpc # "done"
    /\ dl' = [dl EXCEPT !.spc = "closed", !.dropped = TRUE]
    /\ out' = NoOut
    /\ UNCHANGED <<library, files, trackerVars, otherVars>>

\* the connection is reset: the serving side is gone, what was in flight is lost, and
\* the requester's next recv raises
ConnReset ==
    /\ dl.spc \in {"accept", "wait_ack", "stream"}
    /\ dl.cpc # "done"
    /\ dl' = [dl EXCEPT !.spc = "closed", !.dropped = TRUE, !.reset = TRUE, !.wire = <<>>]
    /\ out' = NoOut
    /\ UNCHANGED <<library, files, trackerVars, otherVars>>

\* peer.py 313 / 337, 359-361: recv raises on the reset connection; download_video
\* returns False from its except clause
DlRaise ==
    /\ dl.cpc \in {"wait_header", "recv"}
    /\ dl.reset
    /\ dl' = [dl EXCEPT !.cpc = "done", !.result = "False"]
    /\ out' = NoOut
    /\ UNCHANGED <<library, files, trackerVars, otherVars>>

\* peer.py 336-341: recv returns k bytes, which are written to the destination
DlRecv(k) ==
    /\ dl.cpc = "recv"
    /\ dl.received < dl.file_size
    /\ k \in 1..Min(ChunkSize, Len(dl.wire))
    /\ files' = [files EXCEPT ![dl.c][dl.v] =
                    [data |-> WriteAt(@.data, dl.received, SubSeq(dl.wire, 1, k)),
                     by |-> "download"]]
    /\ dl' = [dl EXCEPT !.wire = SubSeq(@, k + 1, Len(@)), !.received = @ + k]
    /\ out' = NoOut
    /\ UNCHANGED <<library, trackerVars, otherVars>>

\* peer.py 336: the loop ends when received has reached file_size
DlLoopEnd ==
    /\ dl.cpc = "recv"
    /\ dl.received >= dl.file_size
    /\ dl' = [dl EXCEPT !.cpc = "after_loop"]
    /\ out' = NoOut
    /\ UNCHANGED <<library, files, trackerVars, otherVars>>

\* DlBreak without lines 338-339: the loop goes round on the empty chunk
DlBreakSpins ==
    /\ dl.cpc = "recv"
    /\ dl.received < dl.file_size
    /\ dl.wire = <<>>
    /\ dl.spc = "closed"
    /\ ~dl.reset
    /\ UNCHANGED vars

\* peer.py 337-339: recv returns no bytes (the other side closed): break
DlBreak ==
    /\ dl.cpc = "recv"
    /\ dl.received < dl.file_size
    /\ dl.wire = <<>>
    /\ dl.spc = "closed"
    /\ ~dl.reset
    /\ dl' = [dl EXCEPT !.cpc = "after_loop"]
    /\ out' = NoOut
    /\ UNCHANGED <<library, files, trackerVars, otherVars>>

\* DownloadResult that compares what was received with the declared size
DownloadResultBySize(received, file_size) == IF received < file_size THEN "False" ELSE "True"

\* peer.py 357: what download_video returns after its receive loop
DownloadResult(received, file_size) == "True"

\* peer.py 343-357: close, add the library entry, return
DlRegister ==
    /\ dl.cpc = "after_loop"
    /\ library' = [library EXCEPT ![dl.c] =
                      DictPut(@, dl.v, [size |-> dl.file_size, name |-> dl.hdr.name,
                                        origin |-> "download"])]
    /\ dl' = [dl EXCEPT !.cpc = "done", !.registered = TRUE,
                        !.result = DownloadResult(dl.received, dl.file_size)]
    /\ out' = NoOut
    /\ UNCHANGED <<files, trackerVars, otherVars>>

\* the exchange is over on both sides; the next one can start
DlEnd ==
    /\ dl.cpc = "done"
    /\ dl.spc = "closed"
    /\ dl' = IdleDl
    /\ out' = NoOut
    /\ UNCHANGED <<library, files, trackerVars, otherVars>>

PeerInit ==
    /\ library = [p \in PeerNames |-> <<>>]
    /\ files = [p \in PeerNames |-> <<>>]
    /\ dl = IdleDl
    /\ out = NoOut

PeerNext ==
    \/ \E p \in PeerNames, src \in SourceFiles : AddVideo(p, src)
    \/ \E p \in PeerNames, src \in SourceFiles, opened \in BOOLEAN : AddVideoFails(p, src, opened)
    \/ \E p \in PeerNames : ServeListVideos(p)
    \/ \E p \in PeerNames, v \in VideoIds : ServeVideoInfo(p, v)
    \/ ServeUnknown
    \/ ServeMalformed
    \/ \E c \in PeerNames, s \in PeerNames, v \in VideoIds : DlStart(c, s, v)
    \/ SrvHeader
    \/ DlNotFound
    \/ DlAck
    \/ DlNoHeader
    \/ \E arrived \in 1..HdrLen : DlHeaderTorn(arrived)
    \/ SrvAck
    \/ SrvAckClosed
    \/ SrvSend
    \/ SrvEof
    \/ SrvSendFails
    \/ ConnDrop
    \/ ConnReset
    \/ DlRaise
    \/ \E k \in 1..ChunkSize : DlRecv(k)
    \/ DlLoopEnd
    \/ DlBreak
    \/ DlRegister
    \/ DlEnd

(***************************************************************************)
(* Functions and tracker client helpers (src/Server/network_utils.py),     *)
(* called on inputs drawn from bounded sets.                               *)
(***************************************************************************)
NoCall == [op |-> "none"]

\* every sequence over S of length at most n
RECURSIVE SeqsUpTo(_, _)
SeqsUpTo(S, n) ==
    IF n = 0 THEN {<<>>}
    ELSE LET shorter == SeqsUpTo(S, n - 1)
         IN  shorter \cup {Append(q, x) : q \in {r \in shorter : Len(r) = n - 1}, x \in S}

\* the files _generate_video_id is called on
IdFiles == SeqsUpTo(0..MaxByte, MaxIdLen)

\* peer.py 160, 189-195: the ids of two files
ComputeIds(f, g) ==
    /\ call' = [op |-> "_generate_video_id", f |-> f, g |-> g,
                 idf |-> GenerateVideoId(f), idg |-> GenerateVideoId(g)]
    /\ UNCHANGED <<trackerVars, peerVars, lockVars, stopVars, historyVars, clientVars>>

\* what connect_to_tracker can return (network_utils.py 50-79): None when the
\* tracker is unreachable or its answer cannot be parsed, else the parsed answer: a
\* dict with a status, a dict without one, or an empty dict
NoneResponse == [py |-> "None", keys |-> 0, status |-> None]
Responses ==
    {NoneResponse,
     [py |-> "dict", keys |-> 0, status |-> None],
     [py |-> "dict", keys |-> 1, status |-> None],
     [py |-> "dict", keys |-> 1, status |-> "success"],
     [py |-> "dict", keys |-> 1, status |-> "error"]}

\* truth value of a response in `if response` / `response and ...`: None and the
\* empty dict are false
Truthy(r) == r.py = "dict" /\ r.keys > 0

\* how a response prints: the value `response and ...` yields when response is false
Repr(r) == IF r.py = "None" THEN "None" ELSE "{}"

\* response.get('status') == 'success'
StatusIsSuccess(r) == IF r.status = "success" THEN "True" ELSE "False"

\* network_utils.py 158, 206: `response and response.get('status') == 'success'`:
\* Python's `and` yields its first operand when that is false
PyAndStatus(r) == IF Truthy(r) THEN StatusIsSuccess(r) ELSE Repr(r)

\* network_utils.py 106-111: if response and ...: return True / else: return False
IfStatus(r) == IF Truthy(r) /\ r.status = "success" THEN "True" ELSE "False"

\* network_utils.py 127-130, 180-183: the peers of a success answer, else []
PeersOrEmpty(r) == IF Truthy(r) /\ r.status = "success" THEN "peers" ELSE "[]"

BoolHelpers == {"register_with_tracker", "announce_video_to_tracker", "send_heartbeat"}
ListHelpers == {"get_peers_from_tracker", "find_video_peers"}

\* network_utils.py 82-206: what each helper returns for a response
HelperReturn(h, r) ==
    CASE h = "register_with_tracker" -> IfStatus(r)
      [] h \in {"announce_video_to_tracker", "send_heartbeat"} -> PyAndStatus(r)
      [] OTHER -> PeersOrEmpty(r)

\* network_utils.py 50-79, 82-206: a helper builds its request, calls
\* connect_to_tracker once and returns
CallTrackerHelper(h, r) ==
    /\ call' = [op |-> h, response |-> r, connects |-> 1, ret |-> HelperReturn(h, r)]
    /\ UNCHANGED <<trackerVars, peerVars, lockVars, stopVars, historyVars, clientVars>>

CallsInit == call = NoCall

CallsNext ==
    \/ \E f \in IdFiles, g \in IdFiles : ComputeIds(f, g)
    \/ \E h \in BoolHelpers \cup ListHelpers, r \in Responses : CallTrackerHelper(h, r)

(***************************************************************************)
(* A peer as a client of other peers (src/Server/peer.py 251-284, 363-390) *)
(***************************************************************************)
\* how one LIST_VIDEOS exchange can go: the connect is refused; the answer is not
\* JSON (or one recv(4096) got only part of it); the answer has no status key; its
\* status is not success; it is a success answer without a videos key; a success
\* answer of a peer with an empty library; a success answer with videos
ListOutcomes == {"refused", "garbage", "no_status", "not_success", "no_videos",
                 "empty", "videos"}

\* the exchanges in which the remote peer answered LIST_VIDEOS with a list
ListSucceeded == {"empty", "videos"}

\* the non-empty list a remote peer answers with (peer.py 197-208)
RemoteVideos == <<[id |-> <<0>>, name |-> VideoName, size |-> 1]>>

Returned(v) == [kind |-> "returned", value |-> v]
Raised == [kind |-> "raised"]

\* RequestVideoListResult with the connect outside the try
RequestVideoListResultRaises(outcome) ==
    CASE outcome = "refused" -> Raised
      [] outcome = "videos" -> Returned(RemoteVideos)
      [] OTHER -> Returned(<<>>)

\* peer.py 262-284: the whole body is in one try whose handler returns []
RequestVideoListResult(outcome) ==
    CASE outcome = "videos" -> Returned(RemoteVideos)      \* 277-278
      [] outcome = "empty" -> Returned(<<>>)                \* 277-278
      [] outcome = "not_success" -> Returned(<<>>)          \* 279-280
      [] OTHER -> Returned(<<>>)                            \* 282-284

\* RequestVideoList that remembers the peer it asked
RequestVideoListRemembers(addr, outcome) ==
    /\ call' = [op |-> "request_video_list", addr |-> addr, outcome |-> outcome,
                 ret |-> RequestVideoListResult(outcome)]
    /\ known_peers' = IF InList(known_peers, addr) THEN known_peers
                      ELSE Append(known_peers, addr)
    /\ UNCHANGED <<trackerVars, peerVars, lockVars, stopVars, historyVars, scan>>

\* peer.py 251-284: request_video_list called on its own
RequestVideoList(addr, outcome) ==
    /\ call' = [op |-> "request_video_list", addr |-> addr, outcome |-> outcome,
                 ret |-> RequestVideoListResult(outcome)]
    /\ UNCHANGED <<trackerVars, peerVars, lockVars, stopVars, historyVars, clientVars>>

\* KnownPeersAfter that appends without looking
KnownPeersAfterAppend(known, addr) == Append(known, addr)

\* peer.py 371-373: the list after add_known_peer
KnownPeersAfter(known, addr) == IF InList(known, addr) THEN known ELSE Append(known, addr)

\* peer.py 363-374; called by the UI on connect and on refresh (app.py 1479, 1569)
AddKnownPeer(addr) ==
    /\ known_peers' = KnownPeersAfter(known_peers, addr)
    /\ call' = [op |-> "add_known_peer", addr |-> addr,
                 was_known |-> InList(known_peers, addr)]
    /\ UNCHANGED <<trackerVars, peerVars, lockVars, stopVars, historyVars, scan>>

IdleScan == [pc |-> "idle", i |-> 1, network_videos |-> <<>>, asked |-> <<>>, listed |-> 0]

\* peer.py 383: network_videos = {}, and the for loop starts
GetAllStart ==
    /\ scan.pc \in {"idle", "returned"}
    /\ scan' = [IdleScan EXCEPT !.pc = "loop"]
    /\ UNCHANGED <<trackerVars, peerVars, lockVars, stopVars, historyVars, call, known_peers>>

\* peer.py 387-388: if videos: network_videos[(peer_host, peer_port)] = videos
GetAllEntry(nv, addr, videos) == IF videos # <<>> THEN DictPut(nv, addr, videos) ELSE nv

\* peer.py 385-388: one iteration of the loop over known_peers
GetAllStep(outcome) ==
    /\ scan.pc = "loop"
    /\ scan.i <= Len(known_peers)
    /\ LET addr == known_peers[scan.i]
            got == RequestVideoListResult(outcome)
       IN  scan' = [scan EXCEPT
                       !.i = @ + 1,
                       !.asked = Append(@, [addr |-> addr, outcome |-> outcome]),
                       !.network_videos =
                           IF got.kind = "returned" THEN GetAllEntry(@, addr, got.value)
                           ELSE @,
                       !.pc = IF got.kind = "returned" THEN "loop" ELSE "raised"]
    /\ UNCHANGED <<trackerVars, peerVars, lockVars, stopVars, historyVars, call, known_peers>>

\* peer.py 385, 390: the list is exhausted; return network_videos
GetAllReturn ==
    /\ scan.pc = "loop"
    /\ scan.i > Len(known_peers)
    /\ scan' = [scan EXCEPT !.pc = "returned", !.listed = Len(known_peers)]
    /\ UNCHANGED <<trackerVars, peerVars, lockVars, stopVars, historyVars, call, known_peers>>

\* peer.py 39: known_peers = []
ClientInit ==
    /\ known_peers = <<>>
    /\ scan = IdleScan

ClientNext ==
    \/ \E a \in Addrs : AddKnownPeer(a)
    \/ \E a \in Addrs, o \in ListOutcomes : RequestVideoList(a, o)
    \/ GetAllStart
    \/ \E o \in ListOutcomes : GetAllStep(o)
    \/ GetAllReturn

(***************************************************************************)
(* Threads and the lock. Each operation is the sequence of its steps that  *)
(* matter to the lock, in program order: a socket recv or send, entering   *)
(* and leaving a `with self.lock:` block, and a read or write of the       *)
(* shared dictionaries (registry and index in the tracker, video_library   *)
(* in a peer). Each step carries the source line it stands for.            *)
(***************************************************************************)
Threads == {"t1", "t2", "t3"}

At(kind, line) == [kind |-> kind, line |-> line]

\* tracker.py: a request handler thread (96-149 and the handler it calls), the
\* sweep thread (308-336) and get_stats (338-345)
TrackerProgram(op) ==
    CASE op = "REGISTER" ->
            <<At("recv", 106), At("acquire", 168), At("write", 169), At("release", 169),
              At("read", 176), At("send", 139)>>
      [] op = "UNREGISTER" ->
            <<At("recv", 106), At("acquire", 191), At("read", 192), At("write", 193),
              At("release", 199), At("send", 139)>>
      [] op = "GET_PEERS" ->
            <<At("recv", 106), At("acquire", 213), At("read", 214), At("release", 221),
              At("send", 139)>>
      [] op = "ANNOUNCE_VIDEO" ->
            <<At("recv", 106), At("acquire", 245), At("read", 246), At("write", 250),
              At("release", 250), At("send", 139)>>
      [] op = "FIND_VIDEO" ->
            <<At("recv", 106), At("acquire", 268), At("read", 269), At("release", 280),
              At("send", 139)>>
      [] op = "HEARTBEAT" ->
            <<At("recv", 106), At("acquire", 300), At("read", 301), At("write", 303),
              At("release", 304), At("send", 139)>>
      [] op = "rejected" ->       \* a missing field or an unknown kind: 135-139
            <<At("recv", 106), At("send", 139)>>
      [] op = "sweep" ->
            <<At("acquire", 315), At("read", 316), At("write", 324), At("release", 331)>>
      [] op = "get_stats" ->
            <<At("acquire", 340), At("read", 341), At("release", 345)>>

TrackerOps == {"REGISTER", "UNREGISTER", "GET_PEERS", "ANNOUNCE_VIDEO", "FIND_VIDEO",
               "HEARTBEAT", "rejected", "sweep", "get_stats"}

\* peer.py: a serving worker (103-144, 197-249), add_video (146-187) and
\* download_video (286-361); app.py: delete_video (1296-1303), edit_video (1318-1325)
PeerProgram(op) ==
    CASE op = "LIST_VIDEOS" ->
            <<At("recv", 113), At("acquire", 199), At("read", 200), At("release", 208),
              At("send", 124)>>
      [] op = "GET_VIDEO_INFO" ->
            <<At("recv", 113), At("read", 134), At("send", 139)>>
      [] op = "DOWNLOAD_VIDEO" ->
            <<At("recv", 113), At("read", 219), At("send", 233), At("recv", 236),
              At("send", 244)>>
      [] op = "add_video" ->
            <<At("acquire", 172), At("write", 173), At("release", 180)>>
      [] op = "download_video" ->
            <<At("send", 310), At("recv", 313), At("send", 329), At("recv", 337),
              At("acquire", 346), At("write", 347), At("release", 354)>>
      [] op = "edit_video" ->
            <<At("read", 1320), At("acquire", 1323), At("write", 1324), At("release", 1325)>>
      [] op = "delete_video" ->
            <<At("read", 1299), At("write", 1303)>>

\* the operations of a peer's serving workers
ServingOps == {"LIST_VIDEOS", "GET_VIDEO_INFO", "DOWNLOAD_VIDEO"}

PeerOps == ServingOps \cup {"add_video", "download_video", "edit_video", "delete_video"}

Program(op) == IF op \in TrackerOps THEN TrackerProgram(op) ELSE PeerProgram(op)

\* the step thread t is about to take; a thread with none has kind "none"
Pending(t) ==
    IF thop[t] # "idle" /\ thpc[t] <= Len(Program(thop[t]))
    THEN Program(thop[t])[thpc[t]]
    ELSE At("none", 0)

\* a thread starts an operation: a connection was accepted and handed to a worker
\* (tracker.py 83-89, peer.py 90-95), the sweep woke up, or the UI called a method
Begin(t, op) ==
    /\ thop[t] = "idle"
    /\ thop' = [thop EXCEPT ![t] = op]
    /\ thpc' = [thpc EXCEPT ![t] = 1]
    /\ UNCHANGED <<trackerVars, peerVars, call, clientVars, stopVars, historyVars, lock>>

\* `with self.lock:` is entered: the thread waits until the lock is free
Acquire(t) ==
    /\ Pending(t).kind = "acquire"
    /\ lock = None
    /\ lock' = t
    /\ thpc' = [thpc EXCEPT ![t] = @ + 1]
    /\ UNCHANGED <<trackerVars, peerVars, call, clientVars, stopVars, historyVars, thop>>

\* the `with` block is left
Release(t) ==
    /\ Pending(t).kind = "release"
    /\ lock' = None
    /\ thpc' = [thpc EXCEPT ![t] = @ + 1]
    /\ UNCHANGED <<trackerVars, peerVars, call, clientVars, stopVars, historyVars, thop>>

\* a read or a write of the shared dictionaries
Access(t) ==
    /\ Pending(t).kind \in {"read", "write"}
    /\ thpc' = [thpc EXCEPT ![t] = @ + 1]
    /\ UNCHANGED <<trackerVars, peerVars, call, clientVars, stopVars, historyVars, lock, thop>>

\* a socket recv or send
SocketIO(t) ==
    /\ Pending(t).kind \in {"recv", "send"}
    /\ thpc' = [thpc EXCEPT ![t] = @ + 1]
    /\ UNCHANGED <<trackerVars, peerVars, call, clientVars, stopVars, historyVars, lock, thop>>

\* the operation returns
Finish(t) ==
    /\ thop[t] # "idle"
    /\ thpc[t] > Len(Program(thop[t]))
    /\ thop' = [thop EXCEPT ![t] = "idle"]
    /\ thpc' = [thpc EXCEPT ![t] = 1]
    /\ UNCHANGED <<trackerVars, peerVars, call, clientVars, stopVars, historyVars, lock>>

\* tracker.py 40, peer.py 46: threading.Lock(), not held
LockInit ==
    /\ lock = None
    /\ thop = [t \in Threads |-> "idle"]
    /\ thpc = [t \in Threads |-> 1]

ThreadSteps ==
    \/ \E t \in Threads : Acquire(t)
    \/ \E t \in Threads : Release(t)
    \/ \E t \in Threads : Access(t)
    \/ \E t \in Threads : SocketIO(t)
    \/ \E t \in Threads : Finish(t)

TrackerLockNext ==
    \/ \E t \in Threads, op \in TrackerOps : Begin(t, op)
    \/ ThreadSteps

PeerLockNext ==
    \/ \E t \in Threads, op \in PeerOps : Begin(t, op)
    \/ ThreadSteps

(***************************************************************************)
(* A started server being stopped (tracker.py 65-94, 346-361; peer.py      *)
(* 72-101): the accept loop, stop() called from another thread, clients    *)
(* connecting, and the handler threads the loop starts.                    *)
(***************************************************************************)
Handlers == {"h1", "h2", "h3"}

\* handler threads started so far
Started == {h \in Handlers : hst[h] # "unborn"}

\* stop() has been called
StopCalled == stpc # "none"

\* a client connects; the listen queue takes it while the socket is open
Connect ==
    /\ sock = "listening"
    /\ backlog + Cardinality(Started) < Cardinality(Handlers)
    /\ backlog' = backlog + 1
    /\ UNCHANGED <<running, sock, lpc, stpc, hst, waits, late>>
    /\ UNCHANGED <<trackerVars, peerVars, call, clientVars, lockVars, historyVars>>

\* tracker.py 77 / peer.py 84: while self.running
LoopTest ==
    /\ lpc = "while"
    /\ lpc' = IF running THEN "settimeout" ELSE "done"
    /\ UNCHANGED <<running, sock, backlog, stpc, hst, waits, late>>
    /\ UNCHANGED <<trackerVars, peerVars, call, clientVars, lockVars, historyVars>>

\* tracker.py 79 / peer.py 86: settimeout(1.0); on a closed socket it raises
\* OSError, which `except Exception` swallows (91-93 / 99-101)
SetTimeout ==
    /\ lpc = "settimeout"
    /\ lpc' = IF sock = "listening" THEN "accept" ELSE "while"
    /\ UNCHANGED <<running, sock, backlog, stpc, hst, waits, late>>
    /\ UNCHANGED <<trackerVars, peerVars, call, clientVars, lockVars, historyVars>>

\* tracker.py 80-87 / peer.py 87-95: accept returns a connection and a daemon
\* thread is started for it
AcceptConnection(h) ==
    /\ lpc = "accept"
    /\ sock = "listening"
    /\ backlog > 0
    /\ hst[h] = "unborn"
    /\ backlog' = backlog - 1
    /\ hst' = [hst EXCEPT ![h] = "running"]
    /\ lpc' = "while"
    /\ waits' = IF StopCalled THEN waits + 1 ELSE waits
    /\ late' = IF StopCalled THEN late + 1 ELSE late
    /\ UNCHANGED <<running, sock, stpc>>
    /\ UNCHANGED <<trackerVars, peerVars, call, clientVars, lockVars, historyVars>>

\* tracker.py 89-90 / peer.py 97-98: no connection within the timeout
AcceptTimeout ==
    /\ lpc = "accept"
    /\ sock = "listening"
    /\ backlog = 0
    /\ lpc' = "while"
    /\ waits' = IF StopCalled THEN waits + 1 ELSE waits
    /\ UNCHANGED <<running, sock, backlog, stpc, hst, late>>
    /\ UNCHANGED <<trackerVars, peerVars, call, clientVars, lockVars, historyVars>>

\* tracker.py 91-93 / peer.py 99-101: accept on the closed socket raises OSError
AcceptClosed ==
    /\ lpc = "accept"
    /\ sock = "closed"
    /\ lpc' = "while"
    /\ waits' = waits + 1
    /\ UNCHANGED <<running, sock, backlog, stpc, hst, late>>
    /\ UNCHANGED <<trackerVars, peerVars, call, clientVars, lockVars, historyVars>>

\* tracker.py 356-359: Ctrl-C raises KeyboardInterrupt in the thread that runs the
\* tracker's loop; it is no Exception, so it leaves the loop and start(), and the
\* handler of start_tracker_server calls stop()
KeyboardInterrupt ==
    /\ lpc # "done"
    /\ ~StopCalled
    /\ lpc' = "done"
    /\ UNCHANGED <<running, sock, backlog, stpc, hst, waits, late>>
    /\ UNCHANGED <<trackerVars, peerVars, call, clientVars, lockVars, historyVars>>

\* tracker.py 67 / peer.py 74: self.running = False
StopFlag ==
    /\ stpc = "none"
    /\ running' = FALSE
    /\ stpc' = "flag"
    /\ UNCHANGED <<sock, backlog, lpc, hst, waits, late>>
    /\ UNCHANGED <<trackerVars, peerVars, call, clientVars, lockVars, historyVars>>

\* tracker.py 68-72 / peer.py 75-79: server_socket.close(); the connections still
\* in the listen queue are dropped
StopClose ==
    /\ stpc = "flag"
    /\ sock' = "closed"
    /\ backlog' = 0
    /\ stpc' = "returned"
    /\ UNCHANGED <<running, lpc, hst, waits, late>>
    /\ UNCHANGED <<trackerVars, peerVars, call, clientVars, lockVars, historyVars>>

\* a handler thread reaches the end of _handle_peer_request (tracker.py 148-149 /
\* peer.py 143-144)
HandlerFinish(h) ==
    /\ hst[h] = "running"
    /\ hst' = [hst EXCEPT ![h] = "finished"]
    /\ UNCHANGED <<running, sock, backlog, lpc, stpc, waits, late>>
    /\ UNCHANGED <<trackerVars, peerVars, call, clientVars, lockVars, historyVars>>

\* tracker.py 48-59 / peer.py 57-65: bound, listening, running, the loop started
StopInit ==
    /\ running = TRUE
    /\ sock = "listening"
    /\ backlog = 0
    /\ lpc = "while"
    /\ stpc = "none"
    /\ hst = [h \in Handlers |-> "unborn"]
    /\ waits = 0
    /\ late = 0

\* the steps of the thread that runs the accept loop
ListenerStep ==
    \/ LoopTest
    \/ SetTimeout
    \/ \E h \in Handlers : AcceptConnection(h)
    \/ AcceptTimeout
    \/ AcceptClosed

StopNext ==
    \/ Connect
    \/ ListenerStep
    \/ KeyboardInterrupt
    \/ StopFlag
    \/ StopClose
    \/ \E h \in Handlers : HandlerFinish(h)

(***************************************************************************)
(* One peer doing everything a Peer does (src/Server/peer.py): peer "B"    *)
(* owns known_peers, adds known peers and asks them for their videos, adds *)
(* a video, serves requests, and downloads from peer "A".                  *)
(***************************************************************************)
\* the exchanges of the frame model: one that fails and one that succeeds
FrameOutcomes == {"refused", "videos"}

\* the address request_video_list is called with
FrameAddr == <<"10.0.0.1", 5001>>

\* the file peer "A" shares and peer "B" adds
FrameFile == <<0>>

FrameNext ==
    \/ \E a \in Addrs : AddKnownPeer(a)
    \/ \E o \in FrameOutcomes : RequestVideoList(FrameAddr, o)
    \/ GetAllStart
    \/ \E o \in FrameOutcomes : GetAllStep(o)
    \/ GetAllReturn
    \/ \E p \in PeerNames : AddVideo(p, FrameFile)
    \/ ServeListVideos("B")
    \/ ServeVideoInfo("B", GenerateVideoId(FrameFile))
    \/ ServeUnknown
    \/ ServeMalformed
    \/ \E v \in VideoIds : DlStart("B", "A", v)
    \/ SrvHeader
    \/ DlNotFound
    \/ DlAck
    \/ DlNoHeader
    \/ \E arrived \in 1..HdrLen : DlHeaderTorn(arrived)
    \/ SrvAck
    \/ SrvAckClosed
    \/ SrvSend
    \/ SrvEof
    \/ ConnDrop
    \/ ConnReset
    \/ DlRaise
    \/ \E k \in 1..ChunkSize : DlRecv(k)
    \/ DlLoopEnd
    \/ DlBreak
    \/ DlRegister
    \/ DlEnd

\* a tracker and two peers, all freshly constructed
(***************************************************************************)
(* The tracker watched over a peer's removal: a REGISTER, ANNOUNCE_VIDEO,  *)
(* UNREGISTER or eviction, REGISTER again, FIND_VIDEO.  An observer copies *)
(* `announced' once; a pair of the copy that is no longer in `announced'   *)
(* is the pair of a peer that left the registry after the copy and has not *)
(* announced that video since.                                             *)
(***************************************************************************)
HistoryInit == snap = {}

\* the address the peers register with
HistoryAddr == <<"10.0.0.1", 5001>>

\* the observer copies the announcements in force
Snapshot ==
    /\ snap = {}
    /\ announced # {}
    /\ snap' = announced
    /\ UNCHANGED <<trackerVars, peerVars, call, clientVars, lockVars, stopVars>>

HistoryNext ==
    \/ \E p \in PeerIds : RegisterStore("w1", p, HistoryAddr[1], HistoryAddr[2])
    \/ RegisterRespond("w1")
    \/ \E p \in PeerIds : UnregisterPeer(p)
    \/ \E p \in PeerIds, v \in TrackerVideoIds : AnnounceVideo(p, v)
    \/ \E v \in TrackerVideoIds : FindVideo(v)
    \/ \E p \in PeerIds : UpdateHeartbeat(p)
    \/ Sweep
    \/ TickClock
    \/ Snapshot

Init ==
    /\ TrackerInit /\ PeerInit /\ CallsInit /\ ClientInit /\ LockInit /\ StopInit
    /\ HistoryInit

\* functions and helpers called on their own
SpecCalls == Init /\ [][CallsNext]_vars

\* one peer adding known peers and asking them for their videos
SpecClient == Init /\ [][ClientNext]_vars

\* one peer as client, server and library owner at once
SpecPeerFrame == Init /\ [][FrameNext]_vars

\* the threads of a tracker and its lock
SpecTrackerLock == Init /\ [][TrackerLockNext]_vars

\* the threads of a peer and its lock
SpecPeerLock == Init /\ [][PeerLockNext]_vars

\* a started server being stopped. The loop thread and the handler threads are
\* scheduled, and accept returns within its timeout: each keeps taking steps while
\* it has one to take. stop() is called or not, and clients connect or not.
SpecStop ==
    /\ Init
    /\ [][StopNext]_vars
    /\ WF_vars(ListenerStep)
    /\ \A h \in Handlers : WF_vars(HandlerFinish(h))
    /\ WF_vars(StopClose)

\* the tracker serving requests; no peer operation runs
SpecTracker == Init /\ [][TrackerNext]_vars

\* the peers adding and transferring videos
SpecPeer == Init /\ [][PeerNext]_vars



(***************************************************************************)
(* Properties of the tracker, checked under SpecTracker.                   *)
(***************************************************************************)
\* p occurs in some entry of the index idx
Indexed(idx, p) == \E v \in DOMAIN idx : InList(idx[v], p)

\* C2: a step that takes a peer out of the registry (the sweep or UNREGISTER)
\* leaves, in the same step, no index entry containing that peer and no
\* empty index entry.
C2_RemovalPrunesIndex ==
    [][\A p \in PeerIds :
          (p \in DOMAIN peer_registry /\ p \notin DOMAIN peer_registry')
          => /\ ~Indexed(video_index', p)
             /\ \A v \in DOMAIN video_index' : video_index'[v] # <<>>]_vars

\* C2 witness: UNREGISTER has just removed a peer that was indexed, and the
\* other peer's entry is still there.
C2_Witness ==
    /\ resp.type = "UNREGISTER" /\ resp.removed
    /\ \E p \in PeerIds : p \notin DOMAIN peer_registry /\ \E v \in TrackerVideoIds : <<p, v>> \notin announced
    /\ video_index # <<>>
    /\ announced # {}

\* C3 (as claimed): REGISTER of a peer_id already in the registry overwrites
\* host/port, refreshes last_seen, keeps the number of entries, and answers a
\* peer_count that is not above the registry size the request found.
C3_ReRegisterCountNotIncreased ==
    [][/\ \A w \in Workers, p \in PeerIds, a \in Addrs :
              (RegisterStore(w, p, a[1], a[2]) /\ p \in DOMAIN peer_registry)
              => /\ peer_registry'[p] = [host |-> a[1], port |-> a[2], last_seen |-> now]
                 /\ DOMAIN peer_registry' = DOMAIN peer_registry
       /\ \A w \in Workers :
              (RegisterRespond(w) /\ wpre[w].known) => resp'.peer_count <= wpre[w].size]_vars

\* C4: FIND_VIDEO for v answers, for every peer that announced v, has not left
\* the registry since and is registered when the query runs, an entry with the
\* host and port the registry holds for it at that moment.
C4_FindReturnsLiveAddress ==
    [][\A v \in TrackerVideoIds :
          (resp'.type = "FIND_VIDEO" /\ FindVideo(v))
          => \A p \in PeerIds :
                (<<p, v>> \in announced /\ p \in DOMAIN peer_registry)
                => InList(resp'.peers, [peer_id |-> p, host |-> peer_registry[p].host,
                                        port |-> peer_registry[p].port])]_vars

\* C4 witness: a FIND_VIDEO answer listing both peers, registered at different
\* addresses, one of them re-registered after the other.
C4_Witness ==
    /\ resp.type = "FIND_VIDEO"
    /\ Len(resp.peers) = 2
    /\ resp.peers[1].host # resp.peers[2].host
    /\ \E p, q \in DOMAIN peer_registry : peer_registry[p].last_seen < peer_registry[q].last_seen

\* C5: HEARTBEAT of a registered peer changes nothing but that peer's
\* last_seen: host, port, the other entries and the index stay.
C5_HeartbeatFrame ==
    [][(resp'.type = "HEARTBEAT" /\ resp'.peer_id \in DOMAIN peer_registry)
       => /\ DOMAIN peer_registry' = DOMAIN peer_registry
          /\ \A q \in DOMAIN peer_registry :
                /\ peer_registry'[q].host = peer_registry[q].host
                /\ peer_registry'[q].port = peer_registry[q].port
                /\ q # resp'.peer_id => peer_registry'[q] = peer_registry[q]
          /\ peer_registry'[resp'.peer_id].last_seen = now
          /\ video_index' = video_index]_vars

\* C5 witness: a successful HEARTBEAT has refreshed a peer registered earlier,
\* while another peer and an index entry exist.
C5_Witness ==
    /\ resp.type = "HEARTBEAT" /\ resp.status = "success"
    /\ peer_registry[resp.peer_id].last_seen = now /\ now > 0
    /\ \E q \in DOMAIN peer_registry : peer_registry[q].last_seen < now
    /\ video_index # <<>>

\* C6: HEARTBEAT of a peer_id that is not in the registry answers status
\* error and leaves registry and index as they were.
C6_HeartbeatUnknown ==
    [][(resp'.type = "HEARTBEAT" /\ resp'.peer_id \notin DOMAIN peer_registry)
       => /\ resp'.status = "error"
          /\ peer_registry' = peer_registry
          /\ video_index' = video_index]_vars

\* C6 witness: an error answer to the HEARTBEAT of a peer that had been
\* registered and is gone, while the other peer is registered.
C6_Witness ==
    /\ resp.type = "HEARTBEAT" /\ resp.status = "error"
    /\ resp.peer_id \in PeerIds
    /\ Indexed(video_index, resp.peer_id)
    /\ peer_registry # <<>>

\* C9: a sweep removes every peer whose age at the sweep exceeds TIMEOUT from
\* the registry and from every index entry.
C9_SweepEvictsExpired ==
    [][resp'.type = "SWEEP"
       => \A p \in DOMAIN peer_registry :
             now - peer_registry[p].last_seen > TIMEOUT
             => p \notin DOMAIN peer_registry' /\ ~Indexed(video_index', p)]_vars

\* C9 witness: the sweep has just evicted a peer while the other one, seen
\* more recently, stays registered and indexed.
C9_Witness ==
    /\ resp.type = "SWEEP" /\ resp.evicted # {}
    /\ peer_registry # <<>>
    /\ video_index # <<>>

\* C15 (as claimed): a request that cannot be parsed, or that lacks a field its
\* kind requires, is answered with status error and changes neither registry
\* nor index.
C15_BadRequestAnswersError ==
    [][(\/ MalformedRequest
        \/ \E r \in IncompleteRegisters : RegisterMissing(r[1], r[2], r[3])
        \/ \E p \in PeerIds \cup {None}, v \in TrackerVideoIds \cup {None} : AnnounceMissing(p, v)
        \/ UnregisterPeer(None)
        \/ FindVideo(None)
        \/ UpdateHeartbeat(None))
       => /\ resp'.status = "error"
          /\ peer_registry' = peer_registry
          /\ video_index' = video_index]_vars

\* C16: every peer FIND_VIDEO returns is in the index entry and in the registry
\* when the query runs and carries the registry's host and port; a peer of the
\* entry that is not registered is left out; count is the number returned.
C16_FindReturnsOnlyRegistered ==
    [][\A v \in TrackerVideoIds \cup {None} :
          (resp'.type = "FIND_VIDEO" /\ FindVideo(v))
          => LET ids == IF v \in DOMAIN video_index THEN video_index[v] ELSE <<>>
             IN  /\ \A i \in 1..Len(resp'.peers) :
                        /\ resp'.peers[i].peer_id \in DOMAIN peer_registry
                        /\ InList(ids, resp'.peers[i].peer_id)
                        /\ resp'.peers[i] = PeerEntry(peer_registry, resp'.peers[i].peer_id)
                 /\ \A p \in PeerIds :
                        (InList(ids, p) /\ p \notin DOMAIN peer_registry)
                        => \A i \in 1..Len(resp'.peers) : resp'.peers[i].peer_id # p
                 /\ resp'.count = Len(resp'.peers)]_vars

\* C16 witness: FIND_VIDEO has answered one peer although every index entry
\* lists two, only one of which is registered.
C16_Witness ==
    /\ resp.type = "FIND_VIDEO" /\ resp.count = 1
    /\ DOMAIN video_index = TrackerVideoIds
    /\ \A v \in DOMAIN video_index : Len(video_index[v]) = 2
    /\ Cardinality(DOMAIN peer_registry) = 1

\* C17: no index entry has an empty peer list, in any state a handler or the
\* sweep leaves behind.
C17_NoEmptyIndexEntry ==
    \A v \in DOMAIN video_index : video_index[v] # <<>>

\* C17 witness: a sweep has just evicted a peer, and of the two videos announced
\* before only one entry, with one peer, is left.
C17_Witness ==
    /\ resp.type = "SWEEP" /\ resp.evicted # {}
    /\ Cardinality(DOMAIN video_index) = 1
    /\ \A v \in DOMAIN video_index : Len(video_index[v]) = 1
    /\ \A v \in DOMAIN video_index : video_index[v][1] \in DOMAIN peer_registry

\* C18 (as claimed): every peer_id in an index entry was stored by a REGISTER at
\* some earlier point.
C18_IndexedWereRegistered ==
    \A v \in DOMAIN video_index :
        \A i \in 1..Len(video_index[v]) : video_index[v][i] \in ever_registered

\* a tracker worker that has taken a REGISTER from its connection and has not yet
\* answered does nothing on it but answer and close (every other handler reads,
\* answers and closes in one step)
TrackerWorkerOneRequest ==
    [][\A w \in Workers :
          (wpc[w] = "count" /\ wpc'[w] # "count") => RegisterRespond(w)]_vars

\* the tracker's answer to a request of no known kind: status error, registry and
\* index unchanged
TrackerUnknownAnswersError ==
    [][UnknownRequest
       => /\ resp'.status = "error"
          /\ peer_registry' = peer_registry
          /\ video_index' = video_index]_vars

(***************************************************************************)
(* Properties of the transfer, checked under SpecPeer.                     *)
(***************************************************************************)
\* C1 (as claimed): a download_video whose connection closed before `received`
\* reached the declared size returns False.
C1_TruncatedDownloadFails ==
    (dl.cpc = "done" /\ dl.hdr.status = "success" /\ dl.received < dl.file_size)
    => dl.result = "False"

\* C7: when the serving peer does not have the video, it answers not_found and
\* streams nothing; download_video returns False, has not opened its
\* destination, has sent no acknowledgment and has added no library entry.
C7_NotFoundLeavesNoTrace ==
    (dl.spc \notin {"idle", "accept"} /\ ~dl.found /\ ~dl.dropped)
    => /\ dl.hdr.status = "not_found"
       /\ dl.spc = "closed"
       /\ dl.streamed = 0 /\ dl.wire = <<>>
       /\ ~dl.opened /\ ~dl.acked /\ ~dl.registered
       /\ dl.cpc = "done" => dl.result = "False"

\* C7 witness: the exchange for a video the serving peer lacks is over with a
\* not_found header; the serving peer holds some other video and the requester has
\* no file of the requested id.
C7_Witness ==
    /\ dl.cpc = "done" /\ ~dl.found /\ ~dl.dropped
    /\ dl.hdr.status = "not_found"
    /\ library[dl.s] # <<>>
    /\ dl.v \notin DOMAIN files[dl.c]

\* the exchange ran to its end on both sides with nothing else touching it:
\* the serving peer's entry and file were those add_video left, the connection
\* did not drop, and no other operation rewrote either peer's file meanwhile
QuietCompleteDownload ==
    /\ dl.cpc = "done" /\ dl.result = "True"
    /\ dl.clean /\ ~dl.dropped /\ ~dl.interfered

C10_StreamedEqualsDeclared ==
    (dl.eof /\ ~dl.interfered) => dl.streamed = dl.hdr.size

\* C11 (as claimed): the serving worker has written no file byte to the
\* connection unless its recv for the acknowledgment returned bytes.
C11_NoStreamBeforeAck ==
    dl.streamed > 0 => dl.ackbytes

\* C12 (as claimed): a response header that was sent over a connection that stayed
\* up is received in full and parsed by the requester, however the stream
\* delivers it.
C12_HeaderParsedInFull ==
    (dl.cpc = "done" /\ dl.hdr.status # "none" /\ ~dl.dropped) => dl.parsed

\* C13 (as claimed): a peer answers a request of no known kind with status error
\* and leaves its library unchanged.
C13_UnknownKindAnswersError ==
    [][out'.type = "UNKNOWN"
       => /\ out'.status = "error"
          /\ library' = library]_vars

\* C14: a peer's worker reads at most one request from its connection and, once it
\* has read it, only goes on to close: it never returns to reading a request, a
\* closed connection is not used again, and the workers of one-message requests
\* close after their answer whatever the request was.
C14_WorkerOneRequestThenClose ==
    [][/\ dl'.handled <= 1
       /\ dl'.spc = "accept" => dl.spc \in {"idle", "accept"}
       /\ dl.spc \in {"wait_ack", "stream"} => dl'.spc \in {"wait_ack", "stream", "closed"}
       /\ dl.spc = "closed" => dl'.spc \in {"closed", "idle"}
       /\ out'.type \in {"LIST_VIDEOS", "GET_VIDEO_INFO", "UNKNOWN", "MALFORMED"}
          => out'.closed]_vars

\* C14 witness: a worker that found the video has closed after its send raised,
\* having read one request.
C14_Witness ==
    /\ dl.spc = "closed" /\ dl.handled = 1
    /\ dl.found /\ dl.streamed > 0 /\ ~dl.eof /\ ~dl.dropped

\* the moves of download_video: connect and send the request; read the header;
\* give up, or acknowledge and receive; leave the loop; return
DownloadTransitions ==
    {<<"idle", "wait_header">>, <<"wait_header", "done">>, <<"wait_header", "recv">>,
     <<"recv", "after_loop">>, <<"recv", "done">>, <<"after_loop", "done">>,
     <<"done", "idle">>}

\* C19 (as claimed): a download only moves forward along those transitions, and
\* when it leaves the receive loop it ends as a success exactly if all declared
\* bytes arrived: a truncated stream is a failed outcome.
C19_DownloadStateMachine ==
    [][/\ dl'.cpc # dl.cpc => <<dl.cpc, dl'.cpc>> \in DownloadTransitions
       /\ (dl.cpc = "after_loop" /\ dl'.cpc = "done")
          => dl'.result = (IF dl.received < dl.file_size THEN "False" ELSE "True")]_vars

\* C20: the step by which download_video comes to return False changes no library
\* and no earlier step of that call has written one; a step in which add_video
\* returns None changes no library.
C20_FailureKeepsLibrary ==
    [][/\ (dl'.result = "False" /\ dl.result # "False")
          => (library' = library /\ ~dl'.registered)
       /\ (out'.type = "add_video" /\ out'.status = None)
          => library' = library]_vars

\* C20 witness: a download has failed after bytes were written to its destination,
\* on a peer whose library holds an entry for that very id.
C20_Witness ==
    /\ dl.cpc = "done" /\ dl.result = "False"
    /\ dl.opened /\ dl.received > 0
    /\ dl.v \in DOMAIN library[dl.c]

\* the peer records of a registry, written out entry by entry
RegistryRecords(reg) ==
    {rec \in [peer_id : DOMAIN reg, host : Hosts, port : Ports] :
        reg[rec.peer_id].host = rec.host /\ reg[rec.peer_id].port = rec.port}

\* C26: GET_PEERS returns exactly the peers in the registry, one entry per
\* registered peer_id with its current host and port; count is the number of
\* entries returned; the request changes neither registry nor index
C26_GetPeersIsWholeRegistry ==
    [][resp'.type = "GET_PEERS" =>
          /\ resp'.peers = RegistryRecords(peer_registry)
          /\ Cardinality(resp'.peers) = Cardinality(DOMAIN peer_registry)
          /\ resp'.count = Cardinality(resp'.peers)
          /\ peer_registry' = peer_registry
          /\ video_index' = video_index]_vars

\* GET_PEERS answered with two peers, one of them indexed
C26_Witness ==
    /\ resp.type = "GET_PEERS"
    /\ resp.count = 2
    /\ video_index # <<>>

\* a REGISTER request lacks a field
RegisterLacksField(r) == r[1] = None \/ r[2] = None \/ r[3] = NoPort

\* C27: REGISTER lacking any of peer_id, host, port, and ANNOUNCE_VIDEO lacking
\* peer_id or video_id, are answered with status error and a message and change
\* neither registry nor index; a REGISTER with all three fields present succeeds:
\* it is not answered with an error
C27_ErrorIffFieldAbsent ==
    [][/\ \A r \in RegisterRequests :
             /\ RegisterLacksField(r) =>
                   /\ \A w \in Workers : ~RegisterStore(w, r[1], r[2], r[3])
                   /\ RegisterMissing(r[1], r[2], r[3]) =>
                         /\ resp'.status = "error" /\ resp'.message # ""
                         /\ peer_registry' = peer_registry /\ video_index' = video_index
             /\ ~RegisterLacksField(r) =>
                   ~RegisterMissing(r[1], r[2], r[3])
       /\ \A p \in PeerIds \cup {None}, v \in TrackerVideoIds \cup {None} :
             AnnounceMissing(p, v) =>
                /\ resp'.status = "error" /\ resp'.message # ""
                /\ peer_registry' = peer_registry /\ video_index' = video_index]_vars

\* what holds of the registry: no entry has an absent, empty or zero field
RegistryFieldsTruthy ==
    \A p \in DOMAIN peer_registry :
        /\ p \notin {None, ""}
        /\ peer_registry[p].host \notin {None, ""}
        /\ peer_registry[p].port \notin {NoPort, 0}

\* what holds of the error answers: they carry a message and change nothing
FieldErrorChangesNothing ==
    [][(resp'.type \in {"REGISTER", "ANNOUNCE_VIDEO"} /\ resp'.status = "error") =>
          /\ resp'.message # ""
          /\ peer_registry' = peer_registry
          /\ video_index' = video_index]_vars

\* C31: a sweep removes exactly the peers whose age, the sweep's time minus
\* last_seen, exceeds TIMEOUT, and leaves every other registry entry as it was; so
\* a peer whose last REGISTER or HEARTBEAT is at most TIMEOUT old is not evicted
C31_SweepRemovesExactlyExpired ==
    [][resp'.type = "SWEEP" =>
          /\ DOMAIN peer_registry' =
                {p \in DOMAIN peer_registry : now - peer_registry[p].last_seen <= TIMEOUT}
          /\ \A p \in DOMAIN peer_registry' : peer_registry'[p] = peer_registry[p]
          /\ resp'.evicted = DOMAIN peer_registry \ DOMAIN peer_registry']_vars

\* a sweep has evicted a peer and kept one whose age is exactly the timeout
C31_Witness ==
    /\ resp.type = "SWEEP" /\ resp.evicted # {}
    /\ \E p \in DOMAIN peer_registry : now - peer_registry[p].last_seen = TIMEOUT

\* C32: ANNOUNCE_VIDEO is idempotent: an announce of a pair that is already indexed
\* changes nothing, any other announce appends the peer_id once to the video's
\* entry and touches no other entry, and no index entry ever holds a peer_id twice
C32_AnnounceIdempotent ==
    /\ [](\A v \in DOMAIN video_index :
             \A i \in 1..Len(video_index[v]), j \in 1..Len(video_index[v]) :
                video_index[v][i] = video_index[v][j] => i = j)
    /\ [][(resp'.type = "ANNOUNCE_VIDEO" /\ resp'.status = "success") =>
             IF resp'.again THEN video_index' = video_index
             ELSE \E v \in TrackerVideoIds, p \in PeerIds :
                     LET old == IF v \in DOMAIN video_index THEN video_index[v] ELSE <<>>
                     IN  /\ \A i \in 1..Len(old) : old[i] # p
                         /\ DOMAIN video_index' = DOMAIN video_index \cup {v}
                         /\ video_index'[v] = old \o <<p>>
                         /\ \A u \in DOMAIN video_index \ {v} :
                               video_index'[u] = video_index[u]]_vars

\* a pair that was already indexed has been announced again, in an entry of two peers
C32_Witness ==
    /\ resp.type = "ANNOUNCE_VIDEO" /\ resp.status = "success" /\ resp.again
    /\ \E v \in DOMAIN video_index : Len(video_index[v]) = 2

\* C34: ANNOUNCE_VIDEO, GET_PEERS and FIND_VIDEO leave the registry as it is, and
\* UNREGISTER leaves every remaining entry as it is, last_seen included: an entry
\* that stays is changed by REGISTER or HEARTBEAT of that peer only; so a sweep
\* still evicts a registered peer that only announces and queries once its age
\* exceeds TIMEOUT
C34_OnlyRegisterAndHeartbeatRefresh ==
    [][/\ resp'.type \in {"ANNOUNCE_VIDEO", "GET_PEERS", "FIND_VIDEO"} =>
             peer_registry' = peer_registry
       /\ resp'.type = "UNREGISTER" =>
             \A p \in DOMAIN peer_registry' :
                p \in DOMAIN peer_registry /\ peer_registry'[p] = peer_registry[p]
       /\ \A p \in DOMAIN peer_registry \cap DOMAIN peer_registry' :
             peer_registry'[p] # peer_registry[p] =>
                \/ resp'.type = "HEARTBEAT" /\ resp'.peer_id = p
                \/ \E w \in Workers : wpc[w] = "idle" /\ wpc'[w] = "count"
       /\ resp'.type = "SWEEP" =>
             \A p \in DOMAIN peer_registry :
                now - peer_registry[p].last_seen > TIMEOUT => p \notin DOMAIN peer_registry']_vars

\* a registered peer whose age exceeds the timeout has just announced a video: it
\* is indexed and its last_seen is as old as before
C34_Witness ==
    /\ resp.type = "ANNOUNCE_VIDEO" /\ resp.status = "success"
    /\ \E p \in DOMAIN peer_registry :
          /\ now - peer_registry[p].last_seen > TIMEOUT
          /\ Indexed(video_index, p)

\* peer_id is listed in the index entry of video_id
ListedFor(idx, video_id, peer_id) == video_id \in DOMAIN idx /\ InList(idx[video_id], peer_id)

\* C36: ANNOUNCE_VIDEO of a peer_id the registry does not hold succeeds and lists it
\* in the index; while that peer_id is out of the registry, no sweep and no
\* UNREGISTER takes it out of an entry: UNREGISTER of it, and a sweep that evicts
\* nobody, leave the whole index as it was
C36_UnregisteredAnnouncerStaysIndexed ==
    [][/\ (resp'.type = "ANNOUNCE_VIDEO" /\ resp'.status = "success" /\ ~resp'.again) =>
              \A pv \in announced' \ announced :
                  pv[1] \notin DOMAIN peer_registry => ListedFor(video_index', pv[2], pv[1])
       /\ resp'.type \in {"SWEEP", "UNREGISTER"} =>
              \A p \in PeerIds \ DOMAIN peer_registry, v \in DOMAIN video_index :
                  ListedFor(video_index, v, p) => ListedFor(video_index', v, p)
       /\ (resp'.type = "UNREGISTER" /\ ~resp'.removed) => video_index' = video_index
       /\ (resp'.type = "SWEEP" /\ resp'.evicted = {}) => video_index' = video_index]_vars

\* a sweep has evicted a peer, or an UNREGISTER has removed none, and an entry
\* lists a peer_id that no REGISTER ever stored
C36_Witness ==
    /\ \/ resp.type = "SWEEP" /\ resp.evicted # {}
       \/ resp.type = "UNREGISTER" /\ ~resp.removed
    /\ \E v \in DOMAIN video_index, p \in PeerIds :
          /\ ListedFor(video_index, v, p)
          /\ p \notin ever_registered

(***************************************************************************)
(* Claims about functions and helpers called on their own (SpecCalls).     *)
(***************************************************************************)
\* the two files of the last _generate_video_id call agree on their first
\* PrefixLen bytes
SamePrefix ==
    /\ Min(PrefixLen, Len(call.f)) = Min(PrefixLen, Len(call.g))
    /\ \A i \in 1..Min(PrefixLen, Len(call.f)) : call.f[i] = call.g[i]

\* C21: the video id is a function of the first PrefixLen bytes of the file only:
\* files with the same prefix get the same id, and files that differ within the
\* prefix get different ids, even when their lengths are equal
C21_IdDeterminedByPrefix ==
    call.op = "_generate_video_id" =>
        /\ SamePrefix => call.idf = call.idg
        /\ ~SamePrefix => call.idf # call.idg

\* the half of it that holds: the id depends on nothing but the prefix
IdIsFunctionOfPrefix ==
    call.op = "_generate_video_id" /\ SamePrefix => call.idf = call.idg

\* C25: a tracker client helper makes exactly one connection attempt; when the
\* tracker gave no success answer, a helper that reports success returns the boolean
\* False and a helper that returns peers returns the empty list
C25_HelperFailureIsFalseOrEmpty ==
    call.op \in BoolHelpers \cup ListHelpers =>
        /\ call.connects = 1
        /\ ~(Truthy(call.response) /\ call.response.status = "success") =>
              call.ret = (IF call.op \in BoolHelpers THEN "False" ELSE "[]")

\* what holds of every helper: without a success answer it never returns True or a
\* non-empty list
HelperFailureIsFalsy ==
    call.op \in BoolHelpers \cup ListHelpers
        /\ ~(Truthy(call.response) /\ call.response.status = "success")
    => call.ret \in {"False", "None", "{}", "[]"}

(***************************************************************************)
(* Claims about a peer as a client of other peers (SpecClient).            *)
(***************************************************************************)
NoDuplicates(s) == \A i \in 1..Len(s), j \in 1..Len(s) : s[i] = s[j] => i = j

\* C22: add_known_peer appends an address only if it is absent: the list never
\* holds an address twice, keeps the order of first insertion, and adding an
\* address that is present changes nothing
C22_KnownPeersIsOrderedSet ==
    /\ []NoDuplicates(known_peers)
    /\ [][(call' # call /\ call'.op = "add_known_peer") =>
             IF \E i \in 1..Len(known_peers) : known_peers[i] = call'.addr
             THEN known_peers' = known_peers
             ELSE known_peers' = known_peers \o <<call'.addr>>]_vars

\* an address was added a second time, with both addresses in the list
C22_Witness ==
    /\ call.op = "add_known_peer"
    /\ call.was_known
    /\ Len(known_peers) = 2
    /\ known_peers[2] = call.addr

\* the addresses of a list
Range(s) == {s[i] : i \in 1..Len(s)}

\* the returned call asked every peer that was known when it returned, in order
AskedEveryKnownPeer ==
    /\ Len(scan.asked) = scan.listed
    /\ \A i \in 1..scan.listed : scan.asked[i].addr = known_peers[i]

\* the peers asked by the returned call whose exchange went one of the ways in S
AskedWith(S) == {scan.asked[i].addr : i \in {j \in 1..Len(scan.asked) : scan.asked[j].outcome \in S}}

\* C23: get_all_network_videos returns a dict whose keys are known peers only, with
\* an entry for every known peer whose LIST_VIDEOS request succeeded; a peer whose
\* request failed is omitted and does not keep the later peers from being asked
C23_EntryForEverySucceededPeer ==
    scan.pc = "returned" =>
        /\ DOMAIN scan.network_videos \subseteq Range(known_peers)
        /\ AskedWith(ListSucceeded) \subseteq DOMAIN scan.network_videos
        /\ AskedWith(ListOutcomes \ ListSucceeded) \cap DOMAIN scan.network_videos = {}
        /\ AskedEveryKnownPeer

\* what holds of the returned dict: every known peer was asked, and the keys are
\* exactly the peers that answered with a non-empty list
NetworkVideosAreNonEmptyLists ==
    scan.pc = "returned" =>
        /\ DOMAIN scan.network_videos = AskedWith({"videos"})
        /\ \A a \in DOMAIN scan.network_videos : scan.network_videos[a] # <<>>
        /\ DOMAIN scan.network_videos \subseteq Range(known_peers)
        /\ AskedEveryKnownPeer

\* the scan never ends in an exception
ScanNeverRaises == scan.pc # "raised"

\* C24: request_video_list returns the remote list when the peer answers with
\* success and an empty list, without raising, when the connect fails, the answer
\* cannot be parsed or its status is not success; it changes neither the library
\* nor the known-peer list
C24_RequestVideoListTotal ==
    [][(call' # call /\ call'.op = "request_video_list") =>
          /\ call'.ret.kind = "returned"
          /\ call'.outcome = "videos" => call'.ret.value = RemoteVideos
          /\ call'.outcome # "videos" => call'.ret.value = <<>>
          /\ library' = library
          /\ known_peers' = known_peers]_vars

\* a request that was refused returned, with two peers known
C24_Witness ==
    /\ call.op = "request_video_list"
    /\ call.outcome = "refused"
    /\ call.ret = Returned(<<>>)
    /\ Len(known_peers) = 2

(***************************************************************************)
(* Claims about the locks (SpecTrackerLock, SpecPeerLock).                 *)
(***************************************************************************)
\* C28: in the tracker, every read and every write of the registry or the index,
\* by a request handler or by the sweep, happens while the thread holds the
\* tracker lock, and no thread holds the lock during a socket recv or send
C28_TrackerAccessUnderLock ==
    \A t \in Threads :
        thop[t] \in TrackerOps =>
            /\ Pending(t).kind \in {"read", "write"} => lock = t
            /\ Pending(t).kind \in {"recv", "send"} => lock # t

\* what holds in the tracker: every write is made under the lock, every read but
\* the one at line 176 is, and the lock is not held during socket I/O
TrackerLockExceptCount ==
    \A t \in Threads :
        thop[t] \in TrackerOps =>
            /\ Pending(t).kind = "write" => lock = t
            /\ Pending(t).kind = "read" /\ Pending(t).line # 176 => lock = t
            /\ Pending(t).kind \in {"recv", "send"} => lock # t

\* C29: in a peer, every read of the library by a serving worker and every write
\* of it (add, edit, delete, download registration) happens while the thread holds
\* the peer's lock, and no thread holds that lock during network I/O
C29_PeerAccessUnderLock ==
    \A t \in Threads :
        thop[t] \in PeerOps =>
            /\ Pending(t).kind = "read" /\ thop[t] \in ServingOps => lock = t
            /\ Pending(t).kind = "write" => lock = t
            /\ Pending(t).kind \in {"recv", "send"} => lock # t

\* what holds in a peer: the lock is not held during network I/O, and add_video,
\* download_video, edit_video's writes and LIST_VIDEOS run under it
PeerLockWhereTaken ==
    \A t \in Threads :
        thop[t] \in PeerOps =>
            /\ Pending(t).kind \in {"recv", "send"} => lock # t
            /\ Pending(t).kind = "write" /\ thop[t] # "delete_video" => lock = t
            /\ Pending(t).kind = "read" /\ thop[t] = "LIST_VIDEOS" => lock = t

\* the lock is held by at most the thread that is inside a `with` block
LockHolderIsInsideWith ==
    lock # None =>
        /\ thop[lock] # "idle"
        /\ \E i \in 1..(thpc[lock] - 1), j \in thpc[lock]..Len(Program(thop[lock])) :
              /\ Program(thop[lock])[i].kind = "acquire"
              /\ Program(thop[lock])[j].kind = "release"

(***************************************************************************)
(* Claims about stopping a server (SpecStop).                              *)
(***************************************************************************)
\* C30: after stop() is called, the accept loop sees the cleared flag within one
\* accept wait, accepts no further connection and terminates, while the handler
\* threads already started are not cancelled and run to completion
C30_StopEndsAcceptLoop ==
    /\ [](StopCalled => waits <= 1 /\ late = 0)
    /\ StopCalled ~> lpc = "done"
    /\ [][stpc' # stpc => hst' = hst]_vars
    /\ \A h \in Handlers : hst[h] = "running" ~> hst[h] = "finished"

\* what holds: within one accept wait the loop terminates, having accepted at
\* most one connection after stop() was called, and none after stop() returned;
\* stop() touches no handler thread and every handler thread started finishes
StopEndsLoopAfterOneMore ==
    /\ [](StopCalled => waits <= 1 /\ late <= 1)
    /\ [][stpc = "returned" => late' = late]_vars
    /\ StopCalled ~> lpc = "done"
    /\ [][stpc' # stpc => hst' = hst]_vars
    /\ \A h \in Handlers : hst[h] = "running" ~> hst[h] = "finished"


(***************************************************************************)
(* Claims about one peer doing everything (SpecPeerFrame).                 *)
(***************************************************************************)
\* C33: a peer's known-peer list is changed only by add_known_peer:
\* request_video_list, get_all_network_videos, add_video, download_video and the
\* requests the peer serves leave it as it is
C33_OnlyAddKnownPeerChangesList ==
    [][known_peers' # known_peers =>
          /\ call'.op = "add_known_peer"
          /\ ~call'.was_known
          /\ known_peers' = Append(known_peers, call'.addr)
          /\ library' = library /\ dl' = dl /\ scan' = scan /\ out' = out]_vars

\* with two peers known, peer "B" has downloaded a video and scanned the network
C33_Witness ==
    /\ Len(known_peers) = 2
    /\ dl.cpc = "done" /\ dl.result = "True"
    /\ library["B"] # <<>>
    /\ scan.pc = "returned" /\ scan.listed = 2

(***************************************************************************)
(* Claims about a peer that leaves the registry and comes back             *)
(***************************************************************************)
\* the tracker with the observer of announcements
SpecTrackerHistory == Init /\ [][HistoryNext]_vars

\* C35: FIND_VIDEO for a video returns a peer only if that peer announced the video
\* since it last left the registry: a peer that was unregistered or evicted and
\* registered again is not returned for what it announced before, until it
\* announces again
C35_RemovalForgetsAnnouncements ==
    [][\A v \in TrackerVideoIds :
          (resp'.type = "FIND_VIDEO" /\ FindVideo(v)) =>
              /\ \A i \in 1..Len(resp'.peers) : <<resp'.peers[i].peer_id, v>> \in announced
              /\ \A pv \in snap \ announced :
                    pv[2] = v => \A i \in 1..Len(resp'.peers) : resp'.peers[i].peer_id # pv[1]]_vars

\* FIND_VIDEO has answered with no peer while a peer is registered that had
\* announced both videos, left the registry and has announced nothing since
C35_Witness ==
    /\ resp.type = "FIND_VIDEO"
    /\ resp.count = 0
    /\ \E p \in DOMAIN peer_registry :
          \A v \in TrackerVideoIds : <<p, v>> \in snap /\ <<p, v>> \notin announced

(***************************************************************************)
(* Claims about the files behind the library, checked under SpecPeer.      *)
(***************************************************************************)
\* C37 (as claimed): every library entry's size is the length of the file stored
\* at the entry's path, after any add_video and download_video calls.
C37_SizeIsFileLength ==
    \A p \in PeerNames :
        \A v \in DOMAIN library[p] :
            /\ v \in DOMAIN files[p]
            /\ library[p][v].size = Len(files[p][v].data)

\* the part of C37 that holds: an entry written by add_video, whose file nothing
\* has written since, records the file's length
AddedEntrySizeIsFileLength ==
    \A p \in PeerNames :
        \A v \in DOMAIN library[p] :
            (v \in DOMAIN files[p] /\ library[p][v].origin = "add" /\ files[p][v].by = "add")
            => library[p][v].size = Len(files[p][v].data)

\* C38 (as claimed): while a serving worker has the file of the requested entry
\* open and streams it, no other operation of that peer truncates or rewrites
\* the file.
C38_NoRewriteWhileStreaming ==
    [][(dl.spc = "stream" /\ dl.v \in DOMAIN files[dl.s])
       => /\ dl.v \in DOMAIN files'[dl.s]
          /\ files'[dl.s][dl.v].data = files[dl.s][dl.v].data]_vars

\* what holds of C38: the serving worker itself, and the requester's side of the
\* exchange, never write the serving peer's file
ExchangeKeepsServedFile ==
    [][(dl.spc = "stream" /\ out'.type # "add_video") => files'[dl.s] = files[dl.s]]_vars

(***************************************************************************)
(* One download exchange under fair scheduling: B runs download_video      *)
(* against A, whose serving worker is a thread of its own; A's library     *)
(* changes meanwhile.  Each of the two threads takes its next step if that *)
(* step stays possible; the transport delivers what was sent, or reports   *)
(* the closure (ConnDrop, ConnReset), and nothing obliges it to fail.      *)
(***************************************************************************)
\* peer.py 210-249, 143-144: the steps of the serving worker
ServerStep ==
    \/ SrvHeader
    \/ SrvAck
    \/ SrvAckClosed
    \/ SrvSend
    \/ SrvEof
    \/ SrvSendFails

\* peer.py 312-361: the steps of download_video after its request was sent
RequesterStep ==
    \/ DlNotFound
    \/ DlAck
    \/ DlNoHeader
    \/ \E arrived \in 1..HdrLen : DlHeaderTorn(arrived)
    \/ DlRaise
    \/ \E k \in 1..ChunkSize : DlRecv(k)
    \/ DlLoopEnd
    \/ DlBreak
    \/ DlRegister

ExchangeNext ==
    \/ \E src \in SourceFiles : AddVideo("A", src)
    \/ \E v \in VideoIds : DlStart("B", "A", v)
    \/ ServerStep
    \/ RequesterStep
    \/ ConnDrop
    \/ ConnReset
    \/ DlEnd

SpecExchangeFair ==
    /\ Init
    /\ [][ExchangeNext]_vars
    /\ WF_vars(ServerStep)
    /\ WF_vars(RequesterStep)

\* both sides of the exchange have returned and closed
ExchangeOver == dl.cpc = "done" /\ dl.spc = "closed"

\* C39: a download exchange that has started always comes to the state where
\* download_video has returned and the serving worker has closed, whether the
\* video is absent, the header does not parse, or the stream completes or is cut
\* short
C39_ExchangeTerminates == (dl.cpc # "idle") ~> ExchangeOver

\* an exchange whose header did not parse is over on both sides, the worker
\* having closed by itself
C39_Witness ==
    /\ ExchangeOver
    /\ dl.torn
    /\ ~dl.dropped

=========================================================================
